---- MODULE Spec2Model ----
(***************************************************************************)
(* A model of metapool/prep.py: run-identifier parsing, instrument         *)
(* lookup, run-prefix resolution on a directory of FASTQ files, the        *)
(* American Gut Project transform and the assembly of preparation tables.  *)
(*                                                                         *)
(* Python strings the code inspects character by character are modelled as *)
(* sequences of one-character strings; strings the code only copies or     *)
(* compares as a whole are TLA+ strings.                                   *)
(***************************************************************************)
EXTENDS Integers, Sequences, FiniteSets, TLC

VARIABLES
    run_id_in,      \* parse_illumina_run_id: the argument run_id
    parse_out,      \* parse_illumina_run_id: what the call produced
    gp_in,          \* get_run_prefix: its arguments and the project's directory
    gp_out,         \* get_run_prefix: what the call produced
    agp_in,         \* agp_transform: the frame first passed and the study id
    agp_hist,       \* agp_transform: what each call in turn produced
    \* preparations_for_run and preparations_for_run_mapping_file
    pfr_in,         \* the arguments as passed
    disk,           \* the directory of each project under run_path
    sheet,          \* the caller's sheet, which the call may change
    pc,             \* where the call is: "start", "loop", "returned", "raised"
    run,            \* run_id, run_date, instrument_model, run_center
    pos,            \* the (project, lane) group and the sample within it
    data,           \* the rows built for the group so far
    output,         \* the dictionary returned, an entry per key
    warned,         \* the warnings emitted, in order
    lookups,        \* the calls of get_run_prefix made and what they returned
    err,            \* the exception that ended the call
    name_in,        \* qiita_scrub_name: the argument name
    scrub_hist,     \* qiita_scrub_name: what each call in turn returned
    code_in,        \* get_model_and_center: the argument instrument_code
    model_out       \* get_model_and_center: what the call produced

parseVars == <<run_id_in, parse_out>>
prefixVars == <<gp_in, gp_out>>
agpVars == <<agp_in, agp_hist>>
prepVars == <<pfr_in, disk, sheet, pc, run, pos, data, output, warned, lookups, err>>

pureVars == <<name_in, scrub_hist, code_in, model_out>>

vars == <<parseVars, prefixVars, agpVars, prepVars, pureVars>>

(***************************************************************************)
(* Characters and strings                                                  *)
(***************************************************************************)
Digits == {"0", "1", "2", "3", "4", "5", "6", "7", "8", "9"}

Upper == {"A", "B", "C", "D", "E", "F", "G", "H", "I", "J", "K", "L", "M",
          "N", "O", "P", "Q", "R", "S", "T", "U", "V", "W", "X", "Y", "Z"}

Lower == {"a", "b", "c", "d", "e", "f", "g", "h", "i", "j", "k", "l", "m",
          "n", "o", "p", "q", "r", "s", "t", "u", "v", "w", "x", "y", "z"}

\* The characters of the model in ASCII order, as sorted() compares them.
AsciiOrder ==
    <<" ", "!", "*", "-", ".", "/",
      "0", "1", "2", "3", "4", "5", "6", "7", "8", "9", "?",
      "A", "B", "C", "D", "E", "F", "G", "H", "I", "J", "K", "L", "M",
      "N", "O", "P", "Q", "R", "S", "T", "U", "V", "W", "X", "Y", "Z", "_",
      "a", "b", "c", "d", "e", "f", "g", "h", "i", "j", "k", "l", "m",
      "n", "o", "p", "q", "r", "s", "t", "u", "v", "w", "x", "y", "z">>

Ord == [c \in {AsciiOrder[i] : i \in DOMAIN AsciiOrder} |->
            CHOOSE i \in DOMAIN AsciiOrder : AsciiOrder[i] = c]

IsDigit(c) == c \in Digits

IsAlpha(c) == c \in Upper \cup Lower

\* \w of the re module, on the characters of the model
WordChars == Upper \cup Lower \cup Digits \cup {"_"}

DigitVal(c) == Ord[c] - Ord["0"]

DigitChar(n) == AsciiOrder[Ord["0"] + n]

RECURSIVE StrLess(_, _)
\* s < t for Python strings
StrLess(s, t) ==
    IF s = <<>> THEN t # <<>>
    ELSE IF t = <<>> THEN FALSE
    ELSE IF Head(s) # Head(t) THEN Ord[Head(s)] < Ord[Head(t)]
    ELSE StrLess(Tail(s), Tail(t))

\* s[:i] of Python, for any integer i
PyPrefix(s, i) ==
    IF i >= 0
    THEN SubSeq(s, 1, IF i < Len(s) THEN i ELSE Len(s))
    ELSE SubSeq(s, 1, IF Len(s) + i > 0 THEN Len(s) + i ELSE 0)

\* s[i:] of Python, for i >= 0
PySuffix(s, i) == SubSeq(s, i + 1, Len(s))

IsPrefixOf(p, s) == Len(p) <= Len(s) /\ SubSeq(s, 1, Len(p)) = p

\* the length of the longest run of characters of class, in s from offset from
RECURSIVE RunLen(_, _, _)
RunLen(s, from, class) ==
    IF from < Len(s) /\ s[from + 1] \in class
    THEN 1 + RunLen(s, from + 1, class)
    ELSE 0

\* every string over alphabet of length at most n
RECURSIVE StringsUpTo(_, _)
StringsUpTo(alphabet, n) ==
    IF n = 0 THEN {<<>>}
    ELSE LET shorter == StringsUpTo(alphabet, n - 1)
         IN  shorter \cup {Append(s, c) : s \in shorter, c \in alphabet}

\* None where the code returns None or a tuple of strings
NoMatch == <<>>

(***************************************************************************)
(* Files on disk, glob and is_nonempty_gz_file                             *)
(*                                                                         *)
(* A directory is [exists, files]; a file is [name, content], its content  *)
(* "data" (gunzips to at least one byte), "empty" (gunzips to no byte) or   *)
(* "corrupt" (reading it raises).  Sub-directories are left out: _file_list *)
(* skips them and no pattern of the code matches one.                      *)
(***************************************************************************)
RECURSIVE FnMatch(_, _, _, _)
\* fnmatch of name from offset j against the pattern pat from offset i, where
\* * matches any run of characters and ? any one character
FnMatch(pat, i, name, j) ==
    IF i = Len(pat) THEN j = Len(name)
    ELSE IF pat[i + 1] = "*"
    THEN \/ FnMatch(pat, i + 1, name, j)
         \/ j < Len(name) /\ FnMatch(pat, i, name, j + 1)
    ELSE /\ j < Len(name)
         /\ pat[i + 1] = "?" \/ pat[i + 1] = name[j + 1]
         /\ FnMatch(pat, i + 1, name, j + 1)

\* glob(os.path.join(path, pattern)): the files of the directory that match;
\* a name with a leading dot matches only a pattern with a leading dot.
Glob(dir, pattern) ==
    IF ~dir.exists THEN {}
    ELSE {f \in dir.files :
            /\ FnMatch(pattern, 0, f.name, 0)
            /\ (f.name # <<>> /\ f.name[1] = ".")
                  => (pattern # <<>> /\ pattern[1] = ".")}

\* is_nonempty_gz_file testing len(file_content) >= 0
is_nonempty_gz_file_AnyRead(file) == file.content # "corrupt"

is_nonempty_gz_file(file) ==
    CASE file.content = "data"    -> TRUE      \* len(f.read(1)) > 0
      [] file.content = "empty"   -> FALSE
      [] file.content = "corrupt" -> FALSE     \* except Exception

\* _exists_and_has_files(path)
exists_and_has_files(dir) == dir.exists /\ Cardinality(dir.files) > 0

\* No call made yet
NoCall == [status |-> "idle"]

ParseIdle == run_id_in = <<>> /\ parse_out = NoCall

PrefixIdle == gp_in = NoCall /\ gp_out = NoCall

AgpIdle == agp_in = NoCall /\ agp_hist = <<>>

PureIdle ==
    /\ name_in = NoCall /\ scrub_hist = <<>> /\ code_in = NoCall /\ model_out = NoCall

PrepIdle ==
    /\ pfr_in = NoCall /\ disk = NoCall /\ sheet = NoCall /\ pc = "idle"
    /\ run = NoCall /\ pos = NoCall /\ data = <<>> /\ output = {}
    /\ warned = <<>> /\ lookups = <<>> /\ err = NoCall

(***************************************************************************)
(* parse_illumina_run_id                                                   *)
(***************************************************************************)
\* The value of a string of decimal digits
RECURSIVE Num(_)
Num(s) == IF s = <<>> THEN 0 ELSE 10 * Num(SubSeq(s, 1, Len(s) - 1)) + DigitVal(s[Len(s)])

\* n in decimal, zero-padded to at least width characters
RECURSIVE Pad(_, _)
Pad(n, width) ==
    IF width <= 1 /\ n < 10 THEN <<DigitChar(n)>>
    ELSE Append(Pad(n \div 10, width - 1), DigitChar(n % 10))

\* Matches6 with the underscore after the date left out of the pattern
Matches6_NoUnderscore(run_id) ==
    IF RunLen(run_id, 0, Digits) >= 6
    THEN <<SubSeq(run_id, 1, 6),
           SubSeq(run_id, 7, 6 + RunLen(run_id, 6, WordChars))>>
    ELSE NoMatch

\* re.search(r'^(\d{6})_(\w*)', run_id): None, or the two groups
Matches6(run_id) ==
    IF Len(run_id) >= 7 /\ RunLen(run_id, 0, Digits) >= 6 /\ run_id[7] = "_"
    THEN <<SubSeq(run_id, 1, 6),
           SubSeq(run_id, 8, 7 + RunLen(run_id, 7, WordChars))>>
    ELSE NoMatch

\* re.search(r'^(\d{8})_([\w-]*)', run_id): None, or the two groups
Matches8(run_id) ==
    IF Len(run_id) >= 9 /\ RunLen(run_id, 0, Digits) >= 8 /\ run_id[9] = "_"
    THEN <<SubSeq(run_id, 1, 8),
           SubSeq(run_id, 10, 9 + RunLen(run_id, 9, WordChars \cup {"-"}))>>
    ELSE NoMatch

\* The lengths the %m directive's pattern 1[0-2]|0[1-9]|[1-9] can match at
\* offset at of s, in the order the regex engine tries them.
MonthLens(s, at) ==
    (IF at + 2 <= Len(s)
        /\ \/ s[at + 1] = "1" /\ s[at + 2] \in {"0", "1", "2"}
           \/ s[at + 1] = "0" /\ s[at + 2] \in Digits \ {"0"}
     THEN <<2>> ELSE <<>>)
    \o (IF at + 1 <= Len(s) /\ s[at + 1] \in Digits \ {"0"} THEN <<1>> ELSE <<>>)

\* The same for %d: 3[0-1]|[1-2]\d|0[1-9]|[1-9]| [1-9]
DayLens(s, at) ==
    (IF at + 2 <= Len(s)
        /\ \/ s[at + 1] = "3" /\ s[at + 2] \in {"0", "1"}
           \/ s[at + 1] \in {"1", "2"} /\ s[at + 2] \in Digits
           \/ s[at + 1] = "0" /\ s[at + 2] \in Digits \ {"0"}
     THEN <<2>> ELSE <<>>)
    \o (IF at + 1 <= Len(s) /\ s[at + 1] \in Digits \ {"0"} THEN <<1>> ELSE <<>>)

IsLeap(y) == y % 4 = 0 /\ (y % 100 # 0 \/ y % 400 = 0)

DaysInMonth(y, m) ==
    IF m = 2 THEN (IF IsLeap(y) THEN 29 ELSE 28)
    ELSE IF m \in {4, 6, 9, 11} THEN 30 ELSE 31

\* %y of strptime: 69..99 are 1969..1999, 00..68 are 2000..2068
Century(yy) == IF yy <= 68 THEN 2000 + yy ELSE 1900 + yy

\* datetime.strptime(s, fmt) for fmt "%y%m%d" (ylen = 2) or "%Y%m%d" (ylen = 4)
\* on a string of digits: the date, or ok = FALSE for ValueError.
StrpTime(s, ylen) ==
    LET ms == MonthLens(s, ylen)
        \* the first (month, day) lengths with which the whole pattern matches
        pairs == {<<i, j>> \in (DOMAIN ms) \X {1, 2} :
                     j \in DOMAIN DayLens(s, ylen + ms[i])}
        first == CHOOSE p \in pairs :
                     \A q \in pairs : p[1] < q[1] \/ (p[1] = q[1] /\ p[2] <= q[2])
        ml == ms[first[1]]
        dl == DayLens(s, ylen + ml)[first[2]]
        yv == Num(SubSeq(s, 1, ylen))
        y  == IF ylen = 2 THEN Century(yv) ELSE yv
        m  == Num(SubSeq(s, ylen + 1, ylen + ml))
        d  == Num(SubSeq(s, ylen + ml + 1, ylen + ml + dl))
        bad == [ok |-> FALSE, y |-> 0, m |-> 0, d |-> 0]
    IN  IF pairs = {} THEN bad                    \* does not match format
        ELSE IF ylen + ml + dl # Len(s) THEN bad  \* unconverted data remains
        ELSE IF y < 1 \/ d > DaysInMonth(y, m) THEN bad  \* out of range
        ELSE [ok |-> TRUE, y |-> y, m |-> m, d |-> d]

\* date.strftime('%Y-%m-%d'): the C library pads a year below 1000 on some
\* platforms and not on others.
StrfTime(date) ==
    {Pad(date.y, w) \o <<"-">> \o Pad(date.m, 2) \o <<"-">> \o Pad(date.d, 2) :
        w \in {1, 4}}

FormatErrorMsg == "Unrecognized run identifier format"

\* parse_illumina_run_id(run_id): every outcome the call can have
parse_illumina_run_id(run_id) ==
    LET matches6 == Matches6(run_id)
        matches8 == Matches8(run_id)
        matches  == IF matches6 = NoMatch THEN matches8 ELSE matches6
        ylen     == IF matches6 = NoMatch THEN 4 ELSE 2
        date     == StrpTime(matches[1], ylen)
    IN  IF matches6 = NoMatch /\ matches8 = NoMatch
        THEN {[status |-> "ValueError", msg |-> FormatErrorMsg]}
        ELSE IF Len(matches) # 2
        THEN {[status |-> "ValueError", msg |-> FormatErrorMsg]}
        ELSE IF ~date.ok
        THEN {[status |-> "ValueError", msg |-> "time data does not match"]}
        ELSE {[status |-> "ok", run_date |-> rd, instrument_code |-> matches[2]] :
                 rd \in StrfTime(date)}

(***************************************************************************)
(* get_run_prefix                                                          *)
(***************************************************************************)
ATROPOS == "atropos-and-bowtie2"
FASTP == "fastp-and-minimap2"

\* SearchPath that, for atropos-and-bowtie2, takes filtered_sequences when it
\* has files whether atropos_qc has files or not
SearchPath_FilteredAlone(tree, pipeline) ==
    IF pipeline = ATROPOS
    THEN IF exists_and_has_files(tree.filtered_sequences)
         THEN "filtered_sequences"
         ELSE IF exists_and_has_files(tree.atropos_qc)
         THEN "atropos_qc"
         ELSE "base"
    ELSE IF pipeline = FASTP
    THEN IF /\ exists_and_has_files(tree.trimmed_sequences)
            /\ exists_and_has_files(tree.filtered_sequences)
         THEN "filtered_sequences"
         ELSE IF exists_and_has_files(tree.trimmed_sequences)
         THEN "trimmed_sequences"
         ELSE IF exists_and_has_files(tree.filtered_sequences)
         THEN "filtered_sequences"
         ELSE "base"
    ELSE "invalid"

\* The directory get_run_prefix searches: its name under the project, and
\* "invalid" for a pipeline the code rejects.  tree holds the project's
\* directory (base) and its three sub-directories.
SearchPath(tree, pipeline) ==
    IF pipeline = ATROPOS
    THEN IF exists_and_has_files(tree.atropos_qc)
         THEN IF exists_and_has_files(tree.filtered_sequences)
              THEN "filtered_sequences"
              ELSE "atropos_qc"
         ELSE "base"
    ELSE IF pipeline = FASTP
    THEN IF /\ exists_and_has_files(tree.trimmed_sequences)
            /\ exists_and_has_files(tree.filtered_sequences)
         THEN "filtered_sequences"
         ELSE IF exists_and_has_files(tree.trimmed_sequences)
         THEN "trimmed_sequences"
         ELSE IF exists_and_has_files(tree.filtered_sequences)
         THEN "filtered_sequences"
         ELSE "base"
    ELSE "invalid"

\* '%s_S*_L*%s_R*.fastq.gz' % (sample_id, lane)
SearchMe(sample_id, lane) ==
    sample_id \o <<"_", "S", "*", "_", "L", "*">> \o lane
    \o <<"_", "R", "*", ".", "f", "a", "s", "t", "q", ".", "g", "z">>

\* LoopIndex stepping back one character instead of two
LoopIndex_BackOne(f, r) ==
    LET diffs == {k \in 0..(Len(f) - 1) : f[k + 1] # r[k + 1]}
    IN  IF diffs = {} THEN Len(f) - 1
        ELSE (CHOOSE k \in diffs : \A l \in diffs : k <= l) - 1

\* The value of i after
\*     for i in range(len(f)):
\*         if f[i] != r[i]: i -= 2; break
\* for two names of one length
LoopIndex(f, r) ==
    LET diffs == {k \in 0..(Len(f) - 1) : f[k + 1] # r[k + 1]}
    IN  IF diffs = {} THEN Len(f) - 1
        ELSE (CHOOSE k \in diffs : \A l \in diffs : k <= l) - 2

\* The result of a call that returns None, a string or raises
ReturnsNone(path, ambiguous) ==
    [status |-> "return", none |-> TRUE, str |-> <<>>, path |-> path,
     warned |-> ambiguous]

ReturnsStr(path, str) ==
    [status |-> "return", none |-> FALSE, str |-> str, path |-> path,
     warned |-> FALSE]

Raises(msg) == [status |-> "ValueError", msg |-> msg]

\* PrefixOfResults comparing the lengths of the names before reading the files
PrefixOfResults_LengthFirst(results, path) ==
    IF Cardinality(results) = 2
    THEN LET forward == CHOOSE x \in results :
                            \A y \in results : x = y \/ StrLess(x.name, y.name)
             reverse == CHOOSE y \in results : y # forward
             f == forward.name
             r == reverse.name
         IN  IF Len(f) # Len(r)
             THEN Raises("Forward and reverse sequences filenames don't match")
             ELSE IF is_nonempty_gz_file(forward) /\ is_nonempty_gz_file(reverse)
             THEN ReturnsStr(path, PyPrefix(f, LoopIndex(f, r)))
             ELSE ReturnsNone(path, FALSE)
    ELSE IF Cardinality(results) > 2
    THEN ReturnsNone(path, TRUE)
    ELSE ReturnsNone(path, FALSE)

\* What the code does with the files the glob found
PrefixOfResults(results, path) ==
    IF Cardinality(results) = 2
    THEN LET forward == CHOOSE x \in results :
                            \A y \in results : x = y \/ StrLess(x.name, y.name)
             reverse == CHOOSE y \in results : y # forward
             f == forward.name
             r == reverse.name
         IN  IF is_nonempty_gz_file(forward) /\ is_nonempty_gz_file(reverse)
             THEN IF Len(f) # Len(r)
                  THEN Raises("Forward and reverse sequences filenames don't match")
                  ELSE ReturnsStr(path, PyPrefix(f, LoopIndex(f, r)))
             ELSE ReturnsNone(path, FALSE)
    ELSE IF Cardinality(results) > 2
    THEN ReturnsNone(path, TRUE)      \* warnings.warn('There are %d matches ...')
    ELSE ReturnsNone(path, FALSE)

\* get_run_prefix(run_path, project, sample_id, lane, pipeline), tree being
\* the directory run_path/project
get_run_prefix(tree, sample_id, lane, pipeline) ==
    LET path == SearchPath(tree, pipeline)
    IN  IF path = "invalid" THEN Raises("Invalid pipeline")
        ELSE PrefixOfResults(Glob(tree[path], SearchMe(sample_id, lane)), path)

----------------------------------------------------------------------------
\* Bounds of the directories tried
MaxFiles == 3

FastqGz == <<".", "f", "a", "s", "t", "q", ".", "g", "z">>

SampleA == <<"S", "a", "m", "p", "l", "e", "A">>
SampleAB == <<"S", "a", "m", "p", "l", "e", "A", "B">>

\* <sample>_S<s>_L00<lane>_R<read>_001.fastq.gz
FastqName(sample, s, lane, read) ==
    sample \o <<"_", "S", s, "_", "L", "0", "0", lane, "_", "R", read>>
    \o <<"_", "0", "0", "1">> \o FastqGz

FileNames ==
    {FastqName(SampleA, "1", "1", "1"),
     FastqName(SampleA, "1", "1", "2"),
     SampleA \o <<"_", "S", "1", "_", "L", "0", "0", "1", "_", "R", "2">> \o FastqGz,
     FastqName(SampleA, "3", "1", "1"),
     FastqName(SampleAB, "2", "1", "1")}

Contents == {"data", "empty", "corrupt"}

\* The listings of at most MaxFiles files
RECURSIVE ListingsOf(_)
ListingsOf(n) ==
    IF n = 0 THEN {{}}
    ELSE LET fewer == ListingsOf(n - 1)
         IN  fewer \cup
             {l \cup {f} : l \in fewer, f \in [name : FileNames, content : Contents]}

Absent == [exists |-> FALSE, files |-> {}]

Dir(files) == [exists |-> TRUE, files |-> files]

\* One file per name
IsListing(l) == \A f, g \in l : f.name = g.name => f = g

\* The project directories tried: none at all, or one whose sub-directories
\* are each absent, empty or filled with the files of the base directory
Trees ==
    LET ls == {l \in ListingsOf(MaxFiles) : IsListing(l)}
        sub(l) == {Absent, Dir({}), Dir(l)}
    IN  {[base |-> Absent, atropos_qc |-> Absent, trimmed_sequences |-> Absent,
          filtered_sequences |-> Absent]}
        \cup UNION {[base : {Dir(l)}, atropos_qc : sub(l),
                     trimmed_sequences : sub(l), filtered_sequences : sub(l)] :
                        l \in ls}

Pipelines == {ATROPOS, FASTP, "other-pipeline"}

\* The (sample_id, lane) pairs looked up.  A sample id is the name bcl2fastq
\* accepts: letters, digits, - and _ only, so it holds no glob wildcard.
Lookups == {<<SampleA, <<"1">>>>, <<SampleAB, <<"1">>>>, <<SampleA, <<"2">>>>}

InitPrefix ==
    /\ \E tree \in Trees, who \in Lookups, pipeline \in Pipelines :
          gp_in = [tree |-> tree, sample_id |-> who[1], lane |-> who[2],
                   pipeline |-> pipeline]
    /\ gp_out = NoCall
    /\ ParseIdle
    /\ AgpIdle
    /\ PrepIdle
    /\ PureIdle

GetRunPrefix ==
    /\ gp_in # NoCall
    /\ gp_out = NoCall
    /\ gp_out' = get_run_prefix(gp_in.tree, gp_in.sample_id, gp_in.lane,
                                gp_in.pipeline)
    /\ UNCHANGED <<gp_in, parseVars, agpVars, prepVars, pureVars>>

NextPrefix == GetRunPrefix

SpecPrefix == InitPrefix /\ [][NextPrefix]_vars

\* The files the call's glob finds: those of the searched directory whose
\* names match <sample_id>_S*_L*<lane>_R*.fastq.gz
ValidPipeline == gp_in # NoCall /\ gp_in.pipeline \in {ATROPOS, FASTP}

Found ==
    IF ValidPipeline
    THEN Glob(gp_in.tree[SearchPath(gp_in.tree, gp_in.pipeline)],
              SearchMe(gp_in.sample_id, gp_in.lane))
    ELSE {}

\* C3: with a valid pipeline, get_run_prefix returns None and raises nothing
\* when the glob finds no file, one file, more than two files, or two files
\* of which one gunzips to nothing (or cannot be read); it warns of an
\* ambiguous match exactly when there are more than two.
C3_NoPrefixReturnsNone ==
    LET found == Found
    IN  (/\ gp_out # NoCall
         /\ ValidPipeline
         /\ \/ Cardinality(found) # 2
            \/ \E f \in found : f.content # "data")
        => /\ gp_out.status = "return"
           /\ gp_out.none
           /\ gp_out.warned <=> Cardinality(found) > 2

\* C3 witness: two files matched, the second one empty, and None came back
C3_Witness ==
    /\ gp_out # NoCall
    /\ Found = {[name |-> FastqName(SampleA, "1", "1", "1"), content |-> "data"],
                [name |-> FastqName(SampleA, "1", "1", "2"), content |-> "empty"]}
    /\ gp_out.status = "return" /\ gp_out.none /\ ~gp_out.warned

\* The sub-directory of the project exists and holds a file
HasFiles(d) == gp_in.tree[d].exists /\ gp_in.tree[d].files # {}

\* C14: the directory get_run_prefix searches is, for atropos-and-bowtie2,
\* filtered_sequences when atropos_qc and filtered_sequences both exist and
\* hold files, atropos_qc when only atropos_qc does, and the project root
\* otherwise; for fastp-and-minimap2, filtered_sequences when trimmed_sequences
\* and filtered_sequences both hold files, else the one of the two that does,
\* else the project root; any other pipeline fails with 'Invalid pipeline'
\* whatever the directories hold.
C14_SearchedDirectory ==
    gp_out # NoCall =>
        IF gp_in.pipeline = "atropos-and-bowtie2"
        THEN gp_out.status = "return" =>
               gp_out.path =
                 IF HasFiles("atropos_qc") /\ HasFiles("filtered_sequences")
                 THEN "filtered_sequences"
                 ELSE IF HasFiles("atropos_qc") THEN "atropos_qc" ELSE "base"
        ELSE IF gp_in.pipeline = "fastp-and-minimap2"
        THEN gp_out.status = "return" =>
               gp_out.path =
                 IF HasFiles("trimmed_sequences") /\ HasFiles("filtered_sequences")
                 THEN "filtered_sequences"
                 ELSE IF HasFiles("trimmed_sequences") THEN "trimmed_sequences"
                 ELSE IF HasFiles("filtered_sequences") THEN "filtered_sequences"
                 ELSE "base"
        ELSE gp_out = [status |-> "ValueError", msg |-> "Invalid pipeline"]

\* With atropos-and-bowtie2, files in filtered_sequences and none in
\* atropos_qc, the project root was searched
C14_Witness ==
    /\ gp_out # NoCall
    /\ gp_in.pipeline = "atropos-and-bowtie2"
    /\ HasFiles("filtered_sequences") /\ ~HasFiles("atropos_qc")
    /\ gp_in.tree.atropos_qc.exists
    /\ gp_out.status = "return" /\ ~gp_out.none
    /\ gp_out.path = "base"

MismatchedFilenames ==
    [status |-> "ValueError",
     msg |-> "Forward and reverse sequences filenames don't match"]

\* C15: get_run_prefix fails with the error of mismatched file names if and
\* only if exactly two files match, both gunzip to something, and their names
\* differ in length; emptiness is tested first, so two names of different
\* lengths of which one file is empty give None and no failure.
C15_MismatchedFilenames ==
    LET found == Found
        two_lengths == /\ Cardinality(found) = 2
                       /\ \E x, y \in found : Len(x.name) # Len(y.name)
    IN  gp_out # NoCall =>
            /\ gp_out = MismatchedFilenames
                  <=> (two_lengths /\ \A x \in found : x.content = "data")
            /\ (two_lengths /\ \E x \in found : x.content # "data")
                  => (gp_out.status = "return" /\ gp_out.none)

\* Two non-empty files with names of different lengths matched and the call
\* failed
C15_Witness ==
    /\ gp_out = MismatchedFilenames
    /\ Cardinality(Found) = 2
    /\ \A x \in Found : x.content = "data"
    /\ \E x, y \in Found : Len(x.name) # Len(y.name)

\* The 0-based index of the first character at which f and r differ
FirstDifference(f, r) ==
    CHOOSE k \in 0..(Len(f) - 1) :
        /\ f[k + 1] # r[k + 1]
        /\ \A l \in 0..(k - 1) : f[l + 1] = r[l + 1]

\* C4: two matching non-empty files with names f < r of one length give the
\* prefix f[0 .. k-2), k the index of the first difference; it is a leading
\* substring of both names and begins with the sample id; the names
\* SampleA_S1_L001_R1_001.fastq.gz and ..._R2_001.fastq.gz give SampleA_S1_L001.
C4_PrefixStopsTwoBeforeDifference ==
    LET found == Found
    IN
    (/\ gp_out # NoCall
     /\ ValidPipeline
     /\ Cardinality(found) = 2
     /\ \A x \in found : x.content = "data"
     /\ \A x, y \in found : Len(x.name) = Len(y.name))
    => LET f == (CHOOSE x \in found : \A y \in found : ~StrLess(y.name, x.name)).name
           r == (CHOOSE x \in found : \A y \in found : ~StrLess(x.name, y.name)).name
           k == FirstDifference(f, r)
       IN  /\ gp_out.status = "return"
           /\ ~gp_out.none
           /\ k >= 2
           /\ gp_out.str = [i \in 1..(k - 2) |-> f[i]]
           /\ IsPrefixOf(gp_out.str, f)
           /\ IsPrefixOf(gp_out.str, r)
           /\ IsPrefixOf(gp_in.sample_id, gp_out.str)
           /\ (/\ f = FastqName(SampleA, "1", "1", "1")
               /\ r = FastqName(SampleA, "1", "1", "2"))
              => gp_out.str = SampleA \o <<"_", "S", "1", "_", "L", "0", "0", "1">>

\* C4 witness: the two SampleA files of lane 1 were found and gave a prefix
C4_Witness ==
    /\ gp_out # NoCall
    /\ {x.name : x \in Found} = {FastqName(SampleA, "1", "1", "1"),
                                  FastqName(SampleA, "1", "1", "2")}
    /\ gp_out.status = "return"
    /\ ~gp_out.none
    /\ gp_out.str = SampleA \o <<"_", "S", "1", "_", "L", "0", "0", "1">>

(***************************************************************************)
(* agp_transform                                                           *)
(*                                                                         *)
(* A frame is the sequence of its rows, a row a record of its columns.     *)
(***************************************************************************)
\* The required columns without index
REQUIRED_COLUMNS_NoIndex ==
    {"sample_plate", "sample_well", "i7_index_id", "i5_index_id", "index2",
     "sample_name"}

REQUIRED_COLUMNS == {"sample_plate", "sample_well", "i7_index_id", "index",
                     "i5_index_id", "index2", "sample_name"}

PREP_COLUMNS == {"experiment_design_description", "well_description",
                 "library_construction_protocol", "platform", "run_center",
                 "run_date", "run_prefix", "sequencing_meth", "center_name",
                 "center_project_name", "instrument_model", "runid",
                 "lane", "sample_project"} \cup REQUIRED_COLUMNS

\* The columns whose values the model keeps character by character
CharColumns == {"sample_name", "well_description", "run_date", "run_prefix",
                "center_project_name", "runid", "lane", "sample_project",
                "sample_plate", "sample_well"}

\* row = {c: '' for c in PREP_COLUMNS}
BlankRow == [c \in PREP_COLUMNS |-> IF c \in CharColumns THEN <<>> ELSE ""]

AGP_STUDY == <<"1", "0", "3", "1", "7">>

\* str.lower() of one character
LowerOf(c) == IF c \in Upper THEN AsciiOrder[Ord[c] + (Ord["a"] - Ord["A"])] ELSE c

\* sub in s
Contains(s, sub) ==
    \E i \in 0..(Len(s) - Len(sub)) : SubSeq(s, i + 1, i + Len(sub)) = sub

\* str.zfill(width): zeros go after a leading sign
ZFill(s, width) ==
    LET zeros == [i \in 1..(width - Len(s)) |-> "0"]
    IN  IF Len(s) >= width THEN s
        ELSE IF s # <<>> /\ s[1] \in {"+", "-"}
        THEN <<s[1]>> \o zeros \o Tail(s)
        ELSE zeros \o s

\* zero_fill putting one more zero in front of a name that starts with a digit
zero_fill_OneMore(name) ==
    IF name = <<>> THEN "IndexError"
    ELSE IF /\ ~Contains([i \in DOMAIN name |-> LowerOf(name[i])],
                         <<"b", "l", "a", "n", "k">>)
            /\ IsDigit(name[1])
    THEN <<"0">> \o name
    ELSE name

\* zero_fill(name) of agp_transform; "IndexError" when name[0] raises
zero_fill(name) ==
    IF name = <<>> THEN "IndexError"
    ELSE IF /\ ~Contains([i \in DOMAIN name |-> LowerOf(name[i])],
                         <<"b", "l", "a", "n", "k">>)
            /\ IsDigit(name[1])
    THEN ZFill(name, 9)
    ELSE name

\* agp_transform(frame, study_id): the frame is changed in place and returned;
\* when zero_fill raises nothing has been assigned yet
agp_transform(frame, study_id) ==
    IF study_id = AGP_STUDY
    THEN IF \E i \in DOMAIN frame : frame[i].sample_name = <<>>
         THEN [status |-> "IndexError", frame |-> frame]
         ELSE [status |-> "ok",
               frame |->
                 [i \in DOMAIN frame |->
                    [frame[i] EXCEPT
                       !.sample_name = zero_fill(@),
                       !.center_name = "UCSDMI",
                       !.library_construction_protocol = "Knight Lab KHP",
                       !.experiment_design_description =
                           "samples of skin, saliva and feces and other samples from the AGP"]]]
    ELSE [status |-> "ok", frame |-> frame]

----------------------------------------------------------------------------
\* Bounds of the frames tried
MaxAgpRows == 2
MaxAgpCalls == 2

AgpNames ==
    {<<>>, <<"7">>, <<"1", "2", "3", "4", "5", "6", "7", "8", "9">>,
     <<"1", "B", "l", "a", "n", "k">>, <<"B", "L", "A", "N", "K", "1">>,
     <<"a", "1">>, <<"0", "4", "2">>, <<"1", ".", "a">>}

AgpRows ==
    {[BlankRow EXCEPT !.sample_name = n, !.center_name = c,
                      !.library_construction_protocol = "sheet protocol",
                      !.experiment_design_description = "sheet design"] :
        n \in AgpNames, c \in {"UCSD", "UCSDMI"}}

RECURSIVE FramesOf(_, _)
\* The frames of at most n rows from rows
FramesOf(rows, n) ==
    IF n = 0 THEN {<<>>}
    ELSE LET fewer == FramesOf(rows, n - 1)
         IN  fewer \cup {Append(f, r) : f \in fewer, r \in rows}

StudyIds == {AGP_STUDY, <<"5", "5", "0">>, <<"Q", "I", "I", "T", "A", "-", "I", "D">>}

InitAgp ==
    /\ agp_in \in [frame : FramesOf(AgpRows, MaxAgpRows), study_id : StudyIds]
    /\ agp_hist = <<>>
    /\ ParseIdle
    /\ PrefixIdle
    /\ PrepIdle
    /\ PureIdle

\* One more call of agp_transform on the frame the last call returned
AgpTransform ==
    /\ agp_in # NoCall
    /\ Len(agp_hist) < MaxAgpCalls
    /\ LET frame == IF agp_hist = <<>> THEN agp_in.frame
                    ELSE agp_hist[Len(agp_hist)].frame
       IN  agp_hist' = Append(agp_hist, agp_transform(frame, agp_in.study_id))
    /\ UNCHANGED <<agp_in, parseVars, prefixVars, prepVars, pureVars>>

NextAgp == AgpTransform

SpecAgp == InitAgp /\ [][NextAgp]_vars

\* The columns agp_transform writes
AgpColumns == {"sample_name", "center_name", "library_construction_protocol",
               "experiment_design_description"}

AgpView(result) ==
    [status |-> result.status,
     cells |-> [i \in DOMAIN result.frame |->
                   [c \in AgpColumns |-> result.frame[i][c]]]]

\* C7: with study id "10317" a second agp_transform leaves the sample names,
\* center_name, library_construction_protocol and
\* experiment_design_description as the first one made them (and fails as the
\* first one did if that one failed); with any other study id every call
\* returns the frame it was given, cell for cell.
C7_AgpTransformIdempotent ==
    /\ (agp_in # NoCall /\ agp_in.study_id = AGP_STUDY)
       => \A i \in 2..Len(agp_hist) : AgpView(agp_hist[i]) = AgpView(agp_hist[1])
    /\ (agp_in # NoCall /\ agp_in.study_id # AGP_STUDY)
       => \A i \in 1..Len(agp_hist) :
             agp_hist[i] = [status |-> "ok", frame |-> agp_in.frame]

\* C7 witness: two calls for study 10317 were made on a frame with the sample
\* name 7, and the name is 000000007 after both
C7_Witness ==
    /\ agp_in # NoCall
    /\ agp_in.study_id = AGP_STUDY
    /\ Len(agp_hist) = 2
    /\ Len(agp_in.frame) = 2
    /\ agp_in.frame[1].sample_name = <<"7">>
    /\ agp_in.frame[1].center_name = "UCSD"
    /\ agp_hist[1].status = "ok"
    /\ agp_hist[2].frame[1].sample_name =
           <<"0", "0", "0", "0", "0", "0", "0", "0", "7">>
    /\ agp_hist[2].frame[1].center_name = "UCSDMI"

(***************************************************************************)
(* get_machine_code, get_model_and_center                                  *)
(***************************************************************************)
\* INSTRUMENT_LOOKUP, one record per instrument in the order of the table
INSTRUMENT_LOOKUP ==
    <<[code |-> <<"F", "S", "1", "0", "0", "0", "1", "7", "7", "3">>,
       machine_prefix |-> <<"F", "S">>, Vocab |-> "Illumina iSeq", run_center |-> "KLM"],
      [code |-> <<"A", "0", "0", "9", "5", "3">>,
       machine_prefix |-> <<"A">>, Vocab |-> "Illumina NovaSeq 6000", run_center |-> "IGM"],
      [code |-> <<"A", "0", "0", "1", "6", "9">>,
       machine_prefix |-> <<"A">>, Vocab |-> "Illumina NovaSeq 6000", run_center |-> "LJI"],
      [code |-> <<"M", "0", "5", "3", "1", "4">>,
       machine_prefix |-> <<"M">>, Vocab |-> "Illumina MiSeq", run_center |-> "KLM"],
      [code |-> <<"K", "0", "0", "1", "8", "0">>,
       machine_prefix |-> <<"K">>, Vocab |-> "Illumina HiSeq 4000", run_center |-> "IGM"],
      [code |-> <<"D", "0", "0", "6", "1", "1">>,
       machine_prefix |-> <<"D">>, Vocab |-> "Illumina HiSeq 2500", run_center |-> "IGM"],
      [code |-> <<"M", "N", "0", "1", "2", "2", "5">>,
       machine_prefix |-> <<"M", "N">>, Vocab |-> "Illumina MiniSeq", run_center |-> "CMI"]>>

\* s.split(sep)[0]
BeforeFirst(s, sep) == SubSeq(s, 1, RunLen(s, 0, {s[i] : i \in DOMAIN s} \ {sep}))

\* get_machine_code with the pattern ^([a-zA-Z]): one letter only
get_machine_code_OneLetter(instrument_model) ==
    LET n == RunLen(instrument_model, 0, Upper \cup Lower)
    IN  SubSeq(instrument_model, 1, IF n > 1 THEN 1 ELSE n)

\* get_machine_code(instrument_model): ^([a-zA-Z]{1,2}), or <<>> where the
\* code raises ValueError for a model with no leading letter
get_machine_code(instrument_model) ==
    LET n == RunLen(instrument_model, 0, Upper \cup Lower)
    IN  SubSeq(instrument_model, 1, IF n > 2 THEN 2 ELSE n)

\* get_model_and_center(instrument_code).  The test
\*     instrument_prefix not in INSTRUMENT_LOOKUP['machine prefix']
\* only builds a ValueError, so an unknown prefix goes on to unique()[0] of
\* an empty selection.
get_model_and_center(instrument_code) ==
    LET instrument_model == BeforeFirst(instrument_code, "_")
        exact  == {i \in DOMAIN INSTRUMENT_LOOKUP :
                      INSTRUMENT_LOOKUP[i].code = instrument_model}
        prefix == get_machine_code(instrument_model)
        same   == {i \in DOMAIN INSTRUMENT_LOOKUP :
                      INSTRUMENT_LOOKUP[i].machine_prefix = prefix}
        first(S) == CHOOSE i \in S : \A j \in S : i <= j
    IN  IF exact # {}
        THEN [status |-> "ok",
              instrument_model |-> INSTRUMENT_LOOKUP[first(exact)].Vocab,
              run_center |-> INSTRUMENT_LOOKUP[first(exact)].run_center]
        ELSE IF prefix = <<>>
        THEN [status |-> "ValueError", msg |-> "Cannot find a machine code"]
        ELSE IF same = {}
        THEN [status |-> "IndexError", msg |-> "index 0 is out of bounds"]
        ELSE [status |-> "ok",
              instrument_model |-> INSTRUMENT_LOOKUP[first(same)].Vocab,
              run_center |-> "UCSDMI"]

(***************************************************************************)
(* os.path.normpath and os.path.split on the run path                      *)
(***************************************************************************)
RECURSIVE SplitOn(_, _)
\* s.split(sep): the pieces of s between the separators
SplitOn(s, sep) ==
    LET n == RunLen(s, 0, {s[i] : i \in DOMAIN s} \ {sep})
    IN  IF n = Len(s) THEN <<s>>
        ELSE <<SubSeq(s, 1, n)>> \o SplitOn(SubSeq(s, n + 2, Len(s)), sep)

RECURSIVE NormComps(_, _, _)
\* The loop of posixpath.normpath over the components of the path
NormComps(comps, new_comps, initial_slashes) ==
    IF comps = <<>> THEN new_comps
    ELSE LET comp == Head(comps)
             kept ==
               IF comp = <<>> \/ comp = <<".">> THEN new_comps
               ELSE IF \/ comp # <<".", ".">>
                       \/ (~initial_slashes /\ new_comps = <<>>)
                       \/ (new_comps # <<>> /\ new_comps[Len(new_comps)] = <<".", ".">>)
               THEN Append(new_comps, comp)
               ELSE IF new_comps # <<>>
               THEN SubSeq(new_comps, 1, Len(new_comps) - 1)
               ELSE new_comps
         IN  NormComps(Tail(comps), kept, initial_slashes)

\* _, run_id = os.path.split(os.path.normpath(run_path))
RunIdOfPath(run_path) ==
    LET initial_slashes == run_path # <<>> /\ run_path[1] = "/"
        comps == NormComps(SplitOn(run_path, "/"), <<>>, initial_slashes)
    IN  IF comps # <<>> THEN comps[Len(comps)]
        ELSE IF initial_slashes THEN <<>>
        ELSE <<".">>

(***************************************************************************)
(* remove_qiita_id, _check_invalid_names, preparations_for_run             *)
(*                                                                         *)
(* A sheet is [columns, rows]; a row is [id, cells], id the index label    *)
(* (the sample id) and cells the value of each column.                     *)
(***************************************************************************)
\* The 1-based position of the last sep in s, 0 if there is none
LastIndexOf(s, sep) ==
    LET at_sep == {i \in DOMAIN s : s[i] = sep}
    IN  IF at_sep = {} THEN 0 ELSE CHOOSE i \in at_sep : \A j \in at_sep : j <= i

\* remove_qiita_id with a pattern that lets the text before _<digits> be empty
remove_qiita_id_EmptyName(project_name) ==
    LET u == LastIndexOf(project_name, "_")
    IN  IF /\ u > 0
           /\ u < Len(project_name)
           /\ \A i \in (u + 1)..Len(project_name) : IsDigit(project_name[i])
        THEN SubSeq(project_name, 1, u - 1)
        ELSE project_name

\* remove_qiita_id(project_name): group 1 of (.+)_(\d+)$, or the name itself;
\* a project name is one line of text
remove_qiita_id(project_name) ==
    LET u == LastIndexOf(project_name, "_")
    IN  IF /\ u > 1
           /\ u < Len(project_name)
           /\ \A i \in (u + 1)..Len(project_name) : IsDigit(project_name[i])
        THEN SubSeq(project_name, 1, u - 1)
        ELSE project_name

RECURSIVE StrRemove(_, _)
\* s.replace(old, ''), old not empty
StrRemove(s, old) ==
    IF Len(s) < Len(old) THEN s
    ELSE IF SubSeq(s, 1, Len(old)) = old
    THEN StrRemove(SubSeq(s, Len(old) + 1, Len(s)), old)
    ELSE <<Head(s)>> \o StrRemove(Tail(s), old)

QIITA_ID == <<"Q", "I", "I", "T", "A", "-", "I", "D">>

\* qiita_id of preparations_for_run for a project
QiitaIdOf(project) ==
    LET project_name == remove_qiita_id(project)
        qiita_id == StrRemove(project, project_name \o <<"_">>)
    IN  IF qiita_id = project THEN QIITA_ID ELSE qiita_id

\* _check_invalid_names(sample_names): the names it warns about
InvalidNames(frame) ==
    {frame[i].sample_name : i \in {j \in DOMAIN frame :
        \E k \in DOMAIN frame[j].sample_name :
            frame[j].sample_name[k] \notin Upper \cup Lower \cup Digits \cup {"."}}}

RECURSIVE SortKeys(_)
\* The (project, lane) keys in the order groupby visits them
SortKeys(keys) ==
    IF keys = {} THEN <<>>
    ELSE LET least == CHOOSE k \in keys : \A l \in keys :
                          \/ k = l
                          \/ StrLess(k[1], l[1])
                          \/ (k[1] = l[1] /\ StrLess(k[2], l[2]))
         IN  <<least>> \o SortKeys(keys \ {least})

\* for project, ... in sheet.groupby('sample_project'):
\*     for lane, ... in project_sheet.groupby('lane'):
GroupsOf(sh) ==
    SortKeys({<<sh.rows[i].cells["sample_project"], sh.rows[i].cells["lane"]>> :
                 i \in DOMAIN sh.rows})

RECURSIVE Positions(_, _, _)
\* The positions, in sheet order, of the rows of a group from row i on
Positions(sh, key, i) ==
    IF i > Len(sh.rows) THEN <<>>
    ELSE (IF <<sh.rows[i].cells["sample_project"], sh.rows[i].cells["lane"]>> = key
          THEN <<i>> ELSE <<>>) \o Positions(sh, key, i + 1)

\* The row preparations_for_run builds for a sample whose files were found
PrepRow(sample, run_prefix, project, lane, r) ==
    [BlankRow EXCEPT
       !.sample_name = sample["sample_name"],
       !.experiment_design_description = sample["experiment_design_description"],
       !.library_construction_protocol = sample["library_construction_protocol"],
       !.platform = "Illumina",
       !.run_center = r.run_center,
       !.run_date = r.run_date,
       !.run_prefix = run_prefix,
       !.sequencing_meth = "sequencing by synthesis",
       !.center_name = "UCSD",
       !.center_project_name = remove_qiita_id(project),
       !.instrument_model = r.instrument_model,
       !.runid = r.run_id,
       !.sample_plate = sample["sample_plate"],
       !.sample_well = sample["sample_well"],
       !.i7_index_id = sample["i7_index_id"],
       !.index = sample["index"],
       !.i5_index_id = sample["i5_index_id"],
       !.index2 = sample["index2"],
       !.lane = lane,
       !.sample_project = project,
       !.well_description = sample["sample_plate"] \o <<".">> \o sample["sample_name"]
                            \o <<".">> \o sample["sample_well"]]

\* sheet['well_description'] = sheet['description'].copy()
\* sheet.drop('description', axis=1, inplace=True)
RenameDescription(sh) ==
    LET columns == (sh.columns \ {"description"}) \cup {"well_description"}
    IN  [columns |-> columns,
         rows |-> [i \in DOMAIN sh.rows |->
                     [id |-> sh.rows[i].id,
                      cells |-> [c \in columns |->
                                   IF c = "well_description"
                                   THEN sh.rows[i].cells["description"]
                                   ELSE sh.rows[i].cells[c]]]]]

\* data.append(row) that does not skip a sample without files
Collect_KeepNone(rows, run_prefix, row) == Append(rows, row)

\* if run_prefix is None: continue ... data.append(row)
Collect(rows, run_prefix, row) ==
    IF run_prefix.none THEN rows ELSE Append(rows, row)

\* output[key] = prep that leaves out an empty preparation
Record_SkipEmpty(out, key, prep, study_id) ==
    IF prep = <<>> THEN out
    ELSE {e \in out : e.key # key}
         \cup {[key |-> key, prep |-> prep, study_id |-> study_id]}

\* output[(run_id, project, lane)] = prep; study_id keeps, next to the
\* preparation, the qiita_id that was handed to agp_transform
Record(out, key, prep, study_id) ==
    {e \in out : e.key # key}
    \cup {[key |-> key, prep |-> prep, study_id |-> study_id]}

\* Lines 420 to 450: the run id, the instrument, the required columns and
\* the description column
Begin ==
    /\ pc = "start"
    /\ LET run_id == RunIdOfPath(pfr_in.run_path)
           not_present == REQUIRED_COLUMNS \ sheet.columns
       IN  \E parsed \in parse_illumina_run_id(run_id) :
           LET model == get_model_and_center(parsed.instrument_code)
           IN  IF parsed.status # "ok"
               THEN /\ pc' = "raised" /\ err' = parsed
                    /\ UNCHANGED <<run, pos, sheet, warned>>
               ELSE IF model.status # "ok"
               THEN /\ pc' = "raised" /\ err' = model
                    /\ UNCHANGED <<run, pos, sheet, warned>>
               ELSE IF not_present # {}
               THEN /\ pc' = "raised"
                    /\ err' = [status |-> "ValueError",
                               msg |-> "Required columns are missing",
                               columns |-> not_present]
                    /\ UNCHANGED <<run, pos, sheet, warned>>
               ELSE /\ pc' = "loop"
                    /\ run' = [run_id |-> run_id, run_date |-> parsed.run_date,
                               instrument_model |-> model.instrument_model,
                               run_center |-> model.run_center]
                    /\ pos' = [group |-> 1, sample |-> 1]
                    /\ IF "well_description" \notin sheet.columns
                       THEN IF "description" \in sheet.columns
                            THEN /\ sheet' = RenameDescription(sheet)
                                 /\ warned' = <<[kind |-> "no well_description"],
                                                [kind |-> "using description"]>>
                            ELSE /\ warned' = <<[kind |-> "no well_description"]>>
                                 /\ UNCHANGED sheet
                       ELSE UNCHANGED <<sheet, warned>>
                    /\ UNCHANGED err
    /\ UNCHANGED <<pfr_in, disk, data, output, lookups>>
    /\ UNCHANGED <<parseVars, prefixVars, agpVars, pureVars>>

\* One pass of the loop over the samples of a group, lines 463 to 502
Sample ==
    /\ pc = "loop"
    /\ pos.group <= Len(GroupsOf(sheet))
    /\ LET key == GroupsOf(sheet)[pos.group]
           project == key[1]
           lane == key[2]
           rows == Positions(sheet, key, 1)
       IN  /\ pos.sample <= Len(rows)
           /\ LET src == rows[pos.sample]
                  sample_id == sheet.rows[src].id
                  sample == sheet.rows[src].cells
                  run_prefix == get_run_prefix(disk[project], sample_id, lane,
                                               pfr_in.pipeline)
              IN  /\ lookups' = Append(lookups, [key |-> key, src |-> src,
                                                 ret |-> run_prefix])
                  /\ IF run_prefix.status # "return"
                     THEN /\ pc' = "raised" /\ err' = run_prefix
                          /\ UNCHANGED <<pos, data, warned>>
                     ELSE /\ pos' = [pos EXCEPT !.sample = @ + 1]
                          /\ data' = Collect(data, run_prefix,
                                              PrepRow(sample, run_prefix.str,
                                                      project, lane, run))
                          /\ warned' = IF run_prefix.warned
                                       THEN Append(warned, [kind |-> "ambiguous",
                                                            key |-> key, src |-> src])
                                       ELSE warned
                          /\ UNCHANGED <<pc, err>>
    /\ UNCHANGED <<pfr_in, disk, sheet, run, output>>
    /\ UNCHANGED <<parseVars, prefixVars, agpVars, pureVars>>

\* The end of a group, lines 504 to 519
Group ==
    /\ pc = "loop"
    /\ pos.group <= Len(GroupsOf(sheet))
    /\ LET key == GroupsOf(sheet)[pos.group]
           project == key[1]
           lane == key[2]
           no_data == IF data = <<>>
                      THEN <<[kind |-> "no data", key |-> key]>> ELSE <<>>
           prep == agp_transform(data, QiitaIdOf(project))
           invalid == IF InvalidNames(prep.frame) # {}
                      THEN <<[kind |-> "invalid names", key |-> key]>> ELSE <<>>
       IN  /\ pos.sample > Len(Positions(sheet, key, 1))
           /\ IF prep.status # "ok"
              THEN /\ pc' = "raised" /\ err' = [status |-> prep.status]
                   /\ warned' = warned \o no_data
                   /\ UNCHANGED <<pos, data, output>>
              ELSE /\ warned' = warned \o no_data \o invalid
                   /\ output' = Record(output, <<run.run_id, project, lane>>,
                                       prep.frame, QiitaIdOf(project))
                   /\ pos' = [group |-> pos.group + 1, sample |-> 1]
                   /\ data' = <<>>
                   /\ UNCHANGED <<pc, err>>
    /\ UNCHANGED <<pfr_in, disk, sheet, run, lookups>>
    /\ UNCHANGED <<parseVars, prefixVars, agpVars, pureVars>>

\* return output, line 521
Return ==
    /\ pc = "loop"
    /\ pos.group > Len(GroupsOf(sheet))
    /\ pc' = "returned"
    /\ UNCHANGED <<pfr_in, disk, sheet, run, pos, data, output, warned, lookups, err>>
    /\ UNCHANGED <<parseVars, prefixVars, agpVars, pureVars>>

NextPrep == Begin \/ Sample \/ Group \/ Return

----------------------------------------------------------------------------
\* Bounds of the sheets tried
MaxRows == 2

AllColumns ==
    REQUIRED_COLUMNS \cup {"sample_project", "lane", "well_description",
                           "experiment_design_description",
                           "library_construction_protocol"}

\* The column sets tried: complete, with description in place of
\* well_description, and two with required columns missing
ColumnSets ==
    {AllColumns,
     (AllColumns \ {"well_description"}) \cup {"description"},
     AllColumns \ {"index"},
     (AllColumns \ {"sample_name", "index2", "well_description"}) \cup {"description"}}

\* The samples of the sheets: the sample id and the sample name
Samples == {[id |-> SampleA, name |-> <<"7">>],
            [id |-> SampleAB, name |-> <<"S", "_", "a">>]}

SheetRow(s, project, lane, columns) ==
    [id |-> s.id,
     cells |-> [c \in columns |->
                  CASE c = "sample_name" -> s.name
                    [] c = "sample_project" -> project
                    [] c = "lane" -> lane
                    [] c = "sample_plate" -> <<"P", "1">>
                    [] c = "sample_well" -> <<"A", "1">>
                    [] c = "experiment_design_description" -> "sheet design"
                    [] c = "library_construction_protocol" -> "sheet protocol"
                    [] OTHER -> c]]

AgpProject == <<"K", "_", "1", "0", "3", "1", "7">>

\* The (project, lane) groups of the sheets with several rows
GroupKeys ==
    {<<AgpProject, <<"1">>>>, <<AgpProject, <<"2">>>>,
     <<<<"C", "_", "5", "5", "0">>, <<"1">>>>, <<<<"N", "o", "S">>, <<"1">>>>}

\* The project names of the sheets with one row
ProjectNames ==
    {a \o b \o c :
        a \in {<<>>, <<"a">>, <<"a", "_", "b">>, <<"a", "_", "1">>},
        b \in {<<>>, <<"_">>, <<"_", "_">>},
        c \in {<<>>, <<"1", "0", "3", "1", "7">>, <<"0", "1", "0", "3", "1", "7">>,
               <<"1", "0", "3", "1", "7", "0">>, <<"5", "5", "0">>,
               <<"1", "0", "3", "1", "7", "x">>, <<"1", "0", "3", "1", "7", "_">>}}
    \ {<<>>}

RowsOf(columns) ==
    {r \in FramesOf({SheetRow(s, k[1], k[2], columns) : s \in Samples, k \in GroupKeys},
                    MaxRows) : TRUE}
    \cup {<<SheetRow(s, p, <<"1">>, columns)>> : s \in Samples, p \in ProjectNames}

Sheets == UNION {[columns : {cs}, rows : RowsOf(cs)] : cs \in ColumnSets}

GoodRunId == <<"2", "0", "0", "1", "0", "1", "_", "M", "0", "5", "3", "1", "4", "_", "1">>

\* The run paths tried: a run of a known instrument with a trailing slash, an
\* 8-digit run of an instrument known by its prefix only, a name that is no
\* run identifier, and a run of an instrument with an unknown prefix
RunPaths ==
    {<<"/", "r", "/">> \o GoodRunId \o <<"/">>,
     <<"r", "/", ".", "/", "x", "/", ".", ".", "/">>
        \o <<"2", "0", "2", "2", "0", "3", "0", "3", "_", "F", "S", "9", "_", "6", "-", "1">>,
     <<"/", "r", "/", "b", "a", "d">>,
     <<"/", "r", "/", "2", "0", "0", "1", "0", "1", "_", "X", "9", "_", "1">>}

File(name, content) == [name |-> name, content |-> content]

EmptyTree == [base |-> Absent, atropos_qc |-> Absent, trimmed_sequences |-> Absent,
              filtered_sequences |-> Absent]

\* The project directories tried
PrepTrees ==
    LET a1 == FastqName(SampleA, "1", "1", "1")
        a2 == FastqName(SampleA, "1", "1", "2")
        a3 == FastqName(SampleA, "3", "1", "1")
        short == SampleA \o <<"_", "S", "1", "_", "L", "0", "0", "1", "_", "R", "2">> \o FastqGz
        b1 == FastqName(SampleAB, "2", "1", "1")
        b2 == FastqName(SampleAB, "2", "1", "2")
        lane2 == {File(FastqName(SampleA, "1", "2", "1"), "data"),
                  File(FastqName(SampleA, "1", "2", "2"), "data")}
        both == {File(a1, "data"), File(a2, "data"), File(b1, "data"), File(b2, "data")}
    IN  {EmptyTree,
         [EmptyTree EXCEPT !.base = Dir({File(a1, "data"), File(a2, "data")} \cup lane2)],
         [EmptyTree EXCEPT !.base = Dir({File(a1, "data"), File(a2, "empty"),
                                         File(b1, "data"), File(b2, "data")})],
         [EmptyTree EXCEPT !.base = Dir({}), !.trimmed_sequences = Dir(both)],
         [EmptyTree EXCEPT !.base = Dir({File(a1, "data"), File(short, "data")})],
         [EmptyTree EXCEPT !.base = Dir({File(a1, "data"), File(a2, "data"),
                                         File(a3, "data"), File(b1, "corrupt")})]}

\* Every project of the sheet has the same directory under the run path
InitPrep ==
    /\ \E run_path \in RunPaths, sh \in Sheets, pipeline \in {FASTP, "other-pipeline"},
          tree \in PrepTrees :
          /\ pfr_in = [run_path |-> run_path, sheet |-> sh, pipeline |-> pipeline]
          /\ sheet = sh
          /\ disk = [p \in {sh.rows[i].cells["sample_project"] : i \in DOMAIN sh.rows}
                       |-> tree]
    /\ pc = "start"
    /\ run = NoCall /\ pos = NoCall /\ data = <<>> /\ output = {}
    /\ warned = <<>> /\ lookups = <<>> /\ err = NoCall
    /\ ParseIdle /\ PrefixIdle /\ AgpIdle /\ PureIdle

SpecPrep == InitPrep /\ [][NextPrep]_vars

----------------------------------------------------------------------------
\* The calls of get_run_prefix made so far for the rows of a group
LookupsOf(key) ==
    LET OfKey(l) == l.key = key
    IN  SelectSeq(lookups, OfKey)

\* Those of them that returned a prefix
KeptOf(key) ==
    LET Kept(l) == l.ret.status = "return" /\ ~l.ret.none
    IN  SelectSeq(LookupsOf(key), Kept)

\* The sample_name and the run_prefix of the rows of a table
NamesAndPrefixes(table) ==
    [i \in DOMAIN table |-> <<table[i].sample_name, table[i].run_prefix>>]

\* The rows of the sheet looked up so far are the first rows of the group, in
\* sheet order
LookedUpInSheetOrder(key) ==
    LET done == LookupsOf(key)
        rows == Positions(sheet, key, 1)
    IN  /\ Len(done) <= Len(rows)
        /\ \A i \in DOMAIN done : done[i].src = rows[i]

\* A sample name as the study 10317 writes it: left-padded with zeros to nine
\* characters when it begins with a digit and does not hold 'blank'
AgpName(name) ==
    IF /\ IsDigit(name[1])
       /\ ~Contains([i \in DOMAIN name |-> LowerOf(name[i])], <<"b", "l", "a", "n", "k">>)
       /\ Len(name) < 9
    THEN [i \in 1..(9 - Len(name)) |-> "0"] \o name
    ELSE name

\* The table of the group being built holds the kept rows so far
BuildingHoldsKept ==
    (pc = "loop" /\ pos.group <= Len(GroupsOf(sheet))) =>
        LET key == GroupsOf(sheet)[pos.group]
            kept == KeptOf(key)
        IN  /\ LookedUpInSheetOrder(key)
            /\ Len(LookupsOf(key)) = pos.sample - 1
            /\ NamesAndPrefixes(data) =
                   [i \in DOMAIN kept |->
                       <<sheet.rows[kept[i].src].cells["sample_name"], kept[i].ret.str>>]

\* C1 (as stated): at every point of the iteration and in the result, the
\* table of a (project, lane) group holds exactly one row for each sheet row of
\* the group for which get_run_prefix returned a prefix, in sheet order, and no
\* row for a sheet row for which it returned None; each row carries the
\* sample_name of its sheet row.
C1_RowsAreTheSamplesWithFiles ==
    /\ BuildingHoldsKept
    /\ \A e \in output :
          LET key == <<e.key[2], e.key[3]>>
              kept == KeptOf(key)
          IN  /\ LookedUpInSheetOrder(key)
              /\ Len(LookupsOf(key)) = Len(Positions(sheet, key, 1))
              /\ NamesAndPrefixes(e.prep) =
                     [i \in DOMAIN kept |->
                         <<sheet.rows[kept[i].src].cells["sample_name"],
                           kept[i].ret.str>>]

\* C1 (amended): at every point of the iteration and in the result, the table
\* of a (project, lane) group holds exactly one row for each sheet row of the
\* group for which get_run_prefix returned a prefix, in sheet order, and no row
\* for a sheet row for which it returned None; each row carries the sample_name
\* of its sheet row, which in the result of a group of study 10317 is
\* left-padded with zeros to nine characters when it begins with a digit.
C1_RowsAreTheSamplesWithFilesAgpPadded ==
    /\ BuildingHoldsKept
    /\ \A e \in output :
          LET key == <<e.key[2], e.key[3]>>
              kept == KeptOf(key)
          IN  /\ LookedUpInSheetOrder(key)
              /\ Len(LookupsOf(key)) = Len(Positions(sheet, key, 1))
              /\ NamesAndPrefixes(e.prep) =
                     [i \in DOMAIN kept |->
                         <<IF e.study_id = AGP_STUDY
                           THEN AgpName(sheet.rows[kept[i].src].cells["sample_name"])
                           ELSE sheet.rows[kept[i].src].cells["sample_name"],
                           kept[i].ret.str>>]

\* A returned group of two samples of which one had a file pair: its table has
\* the one row, and in study 10317 the name of that row is padded
C1_Witness ==
    /\ pc = "returned"
    /\ \E e \in output :
          /\ Len(Positions(sheet, <<e.key[2], e.key[3]>>, 1)) = 2
          /\ Len(e.prep) = 1
          /\ e.study_id = AGP_STUDY
          /\ e.prep[1].sample_name = <<"0", "0", "0", "0", "0", "0", "0", "0", "7">>

\* The (sample_project, lane) pairs of the rows of the sheet handed in
SheetGroups ==
    {<<pfr_in.sheet.rows[i].cells["sample_project"], pfr_in.sheet.rows[i].cells["lane"]>> :
        i \in DOMAIN pfr_in.sheet.rows}

\* The text after the last "/" of a path, a "/" at its end set aside
LastSegment(path) ==
    LET trimmed == IF path # <<>> /\ path[Len(path)] = "/"
                   THEN SubSeq(path, 1, Len(path) - 1) ELSE path
    IN  SubSeq(trimmed, LastIndexOf(trimmed, "/") + 1, Len(trimmed))

\* How many 'no data' warnings were emitted for a group
NoDataWarnings(key) ==
    Cardinality({i \in DOMAIN warned :
                    warned[i] = [kind |-> "no data", key |-> key]})

\* Every sample of the group was dropped
AllDropped(key) ==
    \A i \in DOMAIN lookups :
        lookups[i].key = key => lookups[i].ret.status = "return" /\ lookups[i].ret.none

\* C2: when preparations_for_run completes without a fatal error, its output
\* has exactly one entry per distinct (sample_project, lane) group of the sheet,
\* keyed (run id, project, lane) with the run id the last segment of the run
\* path; a group in which every sample was dropped has an entry with an empty
\* table, and a 'no data' warning is emitted for that group and only for such
\* groups.
C2_OneEntryPerGroup ==
    pc = "returned" =>
        /\ {e.key : e \in output} =
               {<<LastSegment(pfr_in.run_path), g[1], g[2]>> : g \in SheetGroups}
        /\ Cardinality(output) = Cardinality(SheetGroups)
        /\ \A e \in output :
              LET key == <<e.key[2], e.key[3]>>
              IN  /\ AllDropped(key) <=> e.prep = <<>>
                  /\ NoDataWarnings(key) = IF AllDropped(key) THEN 1 ELSE 0

\* A returned run of two groups, one of them without data
C2_Witness ==
    /\ pc = "returned"
    /\ Cardinality(output) = 2
    /\ \E e, f \in output :
          /\ e.prep = <<>> /\ f.prep # <<>>
          /\ NoDataWarnings(<<e.key[2], e.key[3]>>) = 1
          /\ NoDataWarnings(<<f.key[2], f.key[3]>>) = 0

\* The project name is a non-empty text, an underscore and a digit group
HasStudySuffix(project) ==
    \E u \in 2..(Len(project) - 1) :
        /\ project[u] = "_"
        /\ \A i \in (u + 1)..Len(project) : IsDigit(project[i])

\* The digit group after the last underscore
StudySuffix(project) ==
    SubSeq(project, LastIndexOf(project, "_") + 1, Len(project))

\* The project name without the underscore and the digit group
WithoutStudySuffix(project) ==
    SubSeq(project, 1, LastIndexOf(project, "_") - 1)

EndsIn(s, tail) ==
    Len(tail) <= Len(s) /\ SubSeq(s, Len(s) - Len(tail) + 1, Len(s)) = tail

\* The rows of the table have the values the AGP overwrite writes
AgpOverwritten(table) ==
    \A i \in DOMAIN table :
        /\ table[i].center_name = "UCSDMI"
        /\ table[i].library_construction_protocol = "Knight Lab KHP"

\* The study id and the center_project_name of the groups prepared
StudyIdAndProjectName ==
    \A e \in output :
        LET project == e.key[2]
        IN  /\ e.study_id = IF HasStudySuffix(project)
                             THEN StudySuffix(project)
                             ELSE <<"Q", "I", "I", "T", "A", "-", "I", "D">>
            /\ \A i \in DOMAIN e.prep :
                  e.prep[i].center_project_name =
                      IF HasStudySuffix(project)
                      THEN WithoutStudySuffix(project) ELSE project

\* C8 (as stated): the study id handed to the transform is the digit group
\* after the last underscore of a project name of the form
\* <non-empty text>_<digits> and 'QIITA-ID' otherwise; center_project_name is
\* the project name without that _<digits>, and the project name when there is
\* none; the AGP overwrite is applied to a group if and only if its project
\* name ends in _10317.
C8_AgpIffEndsIn10317 ==
    /\ StudyIdAndProjectName
    /\ \A e \in output :
          e.prep # <<>> =>
              (AgpOverwritten(e.prep) <=> EndsIn(e.key[2], <<"_">> \o AGP_STUDY))

\* C8 (amended): the study id handed to the transform is the digit group after
\* the last underscore of a project name of the form <non-empty text>_<digits>
\* and 'QIITA-ID' otherwise; center_project_name is the project name without
\* that _<digits>, and the project name when there is none; the AGP overwrite
\* is applied to a group if and only if its project name is a non-empty text
\* followed by _10317.
C8_AgpIffTextThen10317 ==
    /\ StudyIdAndProjectName
    /\ \A e \in output :
          e.prep # <<>> =>
              (AgpOverwritten(e.prep) <=>
                  /\ EndsIn(e.key[2], <<"_">> \o AGP_STUDY)
                  /\ Len(e.key[2]) > Len(AGP_STUDY) + 1)

\* A project named _10317 was prepared with the placeholder id and without
\* the overwrite
C8_Witness ==
    /\ pc = "returned"
    /\ \E e \in output :
          /\ e.prep # <<>>
          /\ e.key[2] = <<"_">> \o AGP_STUDY
          /\ e.study_id = QIITA_ID
          /\ e.prep[1].center_name = "UCSD"
          /\ e.prep[1].center_project_name = e.key[2]

\* The required columns the sheet handed in lacks
MissingColumns ==
    {"sample_plate", "sample_well", "i7_index_id", "index", "i5_index_id",
     "index2", "sample_name"} \ pfr_in.sheet.columns

MissingColumnsError ==
    [status |-> "ValueError", msg |-> "Required columns are missing",
     columns |-> MissingColumns]

\* The errors of the run id of the run path: it does not parse, or its
\* instrument is not resolved
RunIdErrors ==
    LET parses == parse_illumina_run_id(RunIdOfPath(pfr_in.run_path))
        parsed == {p \in parses : p.status = "ok"}
        models == {get_model_and_center(p.instrument_code) : p \in parsed}
    IN  (parses \ parsed) \cup {m \in models : m.status # "ok"}

\* No file was looked up, the sheet is as it was handed in, nothing is returned
FailedBeforeLookups ==
    /\ pc \in {"start", "raised"}
    /\ lookups = <<>>
    /\ sheet = pfr_in.sheet
    /\ output = {}

\* C10 (as stated): if the sheet lacks any of the seven required columns, the
\* call fails with the MissingColumns error naming exactly the missing
\* columns, before any sample's files are looked up and without modifying the
\* sheet; no output mapping is returned.
C10_MissingColumnsError ==
    MissingColumns # {} =>
        /\ FailedBeforeLookups
        /\ pc = "raised" => err = MissingColumnsError

\* C10 (amended): if the sheet lacks any of the seven required columns, the
\* call fails before any sample's files are looked up, without modifying the
\* sheet and with no output mapping returned; it fails with the MissingColumns
\* error naming exactly the missing columns, unless the run id of the run path
\* does not parse or its instrument is not resolved, and then with that error.
C10_MissingColumnsOrRunIdError ==
    MissingColumns # {} =>
        /\ FailedBeforeLookups
        /\ pc = "raised" =>
              IF RunIdErrors = {} THEN err = MissingColumnsError
              ELSE err \in RunIdErrors

\* A sheet with description and without sample_name and index2 was refused
\* with the two columns named
C10_Witness ==
    /\ pc = "raised"
    /\ err = MissingColumnsError
    /\ MissingColumns = {"sample_name", "index2"}
    /\ "description" \in sheet.columns
    /\ pfr_in.sheet.rows # <<>>

(***************************************************************************)
(* get_run_prefix_mf, extract_run_date_from_run_id,                        *)
(* preparations_for_run_mapping_file                                       *)
(*                                                                         *)
(* The call is followed in the variables of preparations_for_run: sheet is *)
(* the caller's mapping file, a [columns, rows] with the default index, a  *)
(* row being [cells]; run holds run_prefix, run_id and qiita_id of the     *)
(* project at hand.                                                        *)
(***************************************************************************)
REQUIRED_MF_COLUMNS ==
    {"sample_name", "barcode", "primer", "primer_plate", "well_id", "plating",
     "extractionkit_lot", "extraction_robot", "tm1000_8_tool", "primer_date",
     "mastermix_lot", "water_lot", "processing_robot", "tm300_8_tool",
     "tm50_8_tool", "sample_plate", "project_name", "orig_name",
     "well_description", "experiment_design_description",
     "library_construction_protocol", "linker", "platform", "run_center",
     "run_date", "run_prefix", "pcr_primers", "sequencing_meth", "target_gene",
     "target_subfragment", "center_name", "center_project_name",
     "instrument_model", "runid"}

PREP_MF_COLUMNS == REQUIRED_MF_COLUMNS \cup {"lane"}

\* '*_SMPL1_S*R?_*.fastq.gz'
SearchPathMf ==
    <<"*", "_", "S", "M", "P", "L", "1", "_", "S", "*", "R", "?", "_", "*">>
    \o FastqGz

\* get_run_prefix_mf(run_path, project), tree being the directory
\* run_path/project
get_run_prefix_mf(tree) ==
    LET results == Glob(tree.amplicon, SearchPathMf)
    IN  IF Cardinality(results) = 2
        THEN LET forward == CHOOSE x \in results :
                                \A y \in results : x = y \/ StrLess(x.name, y.name)
                 reverse == CHOOSE y \in results : y # forward
                 f == forward.name
                 r == reverse.name
             IN  IF is_nonempty_gz_file(forward) /\ is_nonempty_gz_file(reverse)
                 THEN IF Len(f) # Len(r)
                      THEN Raises("Forward and reverse sequences filenames don't match")
                      ELSE ReturnsStr("amplicon", PyPrefix(f, LoopIndex(f, r)))
                 ELSE ReturnsNone("amplicon", FALSE)
        ELSE IF Cardinality(results) > 2
        THEN ReturnsNone("amplicon", TRUE)   \* warnings.warn("%d possible matches ...
        ELSE ReturnsNone("amplicon", FALSE)

\* s[a:b] of Python, for 0 <= a <= b
PySlice(s, a, b) == SubSeq(s, a + 1, IF b < Len(s) THEN b ELSE Len(s))

\* extract_run_date_from_run_id(run_id)
extract_run_date_from_run_id(run_id) ==
    LET tmp == BeforeFirst(run_id, "_")
    IN  <<"2", "0">> \o PySlice(tmp, 0, 2) \o <<"/">> \o PySlice(tmp, 2, 4)
        \o <<"/">> \o PySlice(tmp, 4, 6)

RECURSIVE BeforeFirstSub(_, _)
\* s.split(sub)[0], sub not empty
BeforeFirstSub(s, sub) ==
    IF Len(s) < Len(sub) THEN s
    ELSE IF SubSeq(s, 1, Len(sub)) = sub THEN <<>>
    ELSE <<Head(s)>> \o BeforeFirstSub(Tail(s), sub)

RECURSIVE ReSubRuns(_, _, _)
\* re.sub('[^...]+', repl, s): each run of characters outside valid becomes repl
ReSubRuns(s, valid, repl) ==
    IF s = <<>> THEN <<>>
    ELSE IF Head(s) \in valid
    THEN <<Head(s)>> \o ReSubRuns(Tail(s), valid, repl)
    ELSE <<repl>> \o ReSubRuns(PySuffix(s, RunLen(s, 0, {s[i] : i \in DOMAIN s} \ valid)),
                               valid, repl)

\* re.sub(r'[^0-9a-zA-Z\-\_]+', '_', x['sample_name'])
SampleIdOf(sample_name) ==
    ReSubRuns(sample_name, Digits \cup Upper \cup Lower \cup {"-", "_"}, "_")

\* str.lower() of the column names tried
LowerColumn(c) ==
    CASE c = "Project_Name" -> "project_name"
      [] c = "BARCODE" -> "barcode"
      [] OTHER -> c

\* mapping_file.columns = mapping_file.columns.str.lower()
LowerColumns(mf) ==
    LET columns == {LowerColumn(c) : c \in mf.columns}
        Was(c) == CHOOSE d \in mf.columns : LowerColumn(d) = c
    IN  [columns |-> columns,
         rows |-> [i \in DOMAIN mf.rows |->
                     [cells |-> [c \in columns |-> mf.rows[i].cells[Was(c)]]]]]

\* mapping_file['lane'] = pd.Series(['1' for x in range(len(mapping_file.index))])
WithLane(mf) ==
    [columns |-> mf.columns \cup {"lane"},
     rows |-> [i \in DOMAIN mf.rows |->
                 [cells |-> [c \in mf.columns \cup {"lane"} |->
                               IF c = "lane" THEN <<"1">> ELSE mf.rows[i].cells[c]]]]]

\* mapping_file['Sample_ID'] = mapping_file.apply(lambda x: re.sub(...), axis=1)
WithSampleId(mf) ==
    [columns |-> mf.columns \cup {"Sample_ID"},
     rows |-> [i \in DOMAIN mf.rows |->
                 [cells |-> [c \in mf.columns \cup {"Sample_ID"} |->
                               IF c = "Sample_ID"
                               THEN SampleIdOf(mf.rows[i].cells["sample_name"])
                               ELSE mf.rows[i].cells[c]]]]]

\* for project, project_sheet in mapping_file.groupby('project_name'):
ProjectsOf(mf) ==
    LET keys == SortKeys({<<mf.rows[i].cells["project_name"], mf.rows[i].cells["lane"]>> :
                             i \in DOMAIN mf.rows})
    IN  [i \in DOMAIN keys |-> keys[i][1]]

\* The study id with the placeholder of preparations_for_run in place of the
\* project name
QiitaIdMf_Placeholder(project) == QiitaIdOf(project)

\* project.replace(project_name + '_', '')
QiitaIdMf(project) == StrRemove(project, remove_qiita_id(project) \o <<"_">>)

\* The row preparations_for_run_mapping_file builds for a sample
PrepMfRow(sample, r, lane) ==
    [c \in PREP_MF_COLUMNS |->
        CASE c = "run_date" -> extract_run_date_from_run_id(r.run_id)
          [] c = "run_prefix" -> r.run_prefix
          [] c = "runid" -> r.run_id
          [] c = "lane" -> lane
          [] OTHER -> sample[c]]

\* Lines 553 to 574: the columns in lower case, lane, Sample_ID and the
\* required columns
MfBegin ==
    /\ pc = "start"
    /\ LET with_lane == WithLane(LowerColumns(sheet))
           with_id == WithSampleId(with_lane)
           not_present == REQUIRED_MF_COLUMNS \ with_id.columns
       IN  IF "sample_name" \notin with_lane.columns
           THEN /\ pc' = "raised"
                /\ err' = [status |-> "KeyError", msg |-> "sample_name"]
                /\ sheet' = with_lane
                /\ UNCHANGED pos
           ELSE IF not_present # {}
           THEN /\ pc' = "raised"
                /\ err' = [status |-> "ValueError",
                           msg |-> "Required columns are missing",
                           columns |-> not_present]
                /\ sheet' = with_id
                /\ UNCHANGED pos
           ELSE /\ pc' = "project"
                /\ pos' = [group |-> 1, sample |-> 1]
                /\ sheet' = with_id
                /\ UNCHANGED err
    /\ UNCHANGED <<pfr_in, disk, run, data, output, warned, lookups>>
    /\ UNCHANGED <<parseVars, prefixVars, agpVars, pureVars>>

\* Lines 576 to 596: the study id, the run prefix and the run id of a project
MfProject ==
    /\ pc = "project"
    /\ pos.group <= Len(ProjectsOf(sheet))
    /\ LET project == ProjectsOf(sheet)[pos.group]
           qiita_id == QiitaIdMf(project)
           run_prefix == get_run_prefix_mf(disk[project])
       IN  IF qiita_id = project
           THEN /\ pc' = "raised"
                /\ err' = [status |-> "ValueError",
                           msg |-> "Values in project_name must be appended with a Qiita Study ID."]
                /\ UNCHANGED <<run, warned, lookups>>
           ELSE /\ lookups' = Append(lookups, [key |-> <<project, <<"1">>>>, src |-> 0,
                                              ret |-> run_prefix])
                /\ IF run_prefix.status # "return"
                   THEN /\ pc' = "raised" /\ err' = run_prefix
                        /\ UNCHANGED <<run, warned>>
                   ELSE IF run_prefix.none
                   THEN \* run_prefix.split('_SMPL1') of line 590, ahead of the
                        \* test of line 595
                        /\ pc' = "raised"
                        /\ err' = [status |-> "AttributeError",
                                   msg |-> "'NoneType' object has no attribute 'split'"]
                        /\ warned' = IF run_prefix.warned
                                     THEN Append(warned, [kind |-> "possible matches",
                                                          key |-> <<project, <<"1">>>>])
                                     ELSE warned
                        /\ UNCHANGED run
                   ELSE /\ pc' = "lane"
                        /\ run' = [run_prefix |-> run_prefix.str,
                                   run_id |-> BeforeFirstSub(run_prefix.str,
                                                <<"_", "S", "M", "P", "L", "1">>),
                                   qiita_id |-> qiita_id]
                        /\ UNCHANGED <<err, warned>>
    /\ UNCHANGED <<pfr_in, disk, sheet, pos, data, output>>
    /\ UNCHANGED <<parseVars, prefixVars, agpVars, pureVars>>

\* Lines 598 to 660: the preparation of the lane of a project
MfLane ==
    /\ pc = "lane"
    /\ LET project == ProjectsOf(sheet)[pos.group]
           lane == <<"1">>
           key == <<project, lane>>
           of_project == {i \in DOMAIN sheet.rows :
                             sheet.rows[i].cells["project_name"] = project}
           rows == Positions([columns |-> sheet.columns,
                              rows |-> [i \in DOMAIN sheet.rows |->
                                 [cells |-> [sample_project |->
                                               sheet.rows[i].cells["project_name"],
                                             lane |-> sheet.rows[i].cells["lane"]]]]],
                             key, 1)
           built == [i \in DOMAIN rows |-> PrepMfRow(sheet.rows[rows[i]].cells, run, lane)]
           no_data == IF built = <<>>
                      THEN <<[kind |-> "no data", key |-> key]>> ELSE <<>>
           prep == agp_transform(built, run.qiita_id)
           invalid == IF InvalidNames(prep.frame) # {}
                      THEN <<[kind |-> "invalid names", key |-> key]>> ELSE <<>>
       IN  IF prep.status # "ok"
           THEN /\ pc' = "raised" /\ err' = [status |-> prep.status]
                /\ warned' = warned \o no_data
                /\ UNCHANGED <<pos, output>>
           ELSE /\ warned' = warned \o no_data \o invalid
                /\ output' = {e \in output : e.key # <<run.run_id, project, lane>>}
                             \cup {[key |-> <<run.run_id, project, lane>>,
                                    prep |-> prep.frame, study_id |-> run.qiita_id]}
                /\ pos' = [group |-> pos.group + 1, sample |-> 1]
                /\ pc' = "project"
                /\ UNCHANGED err
    /\ UNCHANGED <<pfr_in, disk, sheet, run, data, lookups>>
    /\ UNCHANGED <<parseVars, prefixVars, agpVars, pureVars>>

\* return output, line 662
MfReturn ==
    /\ pc = "project"
    /\ pos.group > Len(ProjectsOf(sheet))
    /\ pc' = "returned"
    /\ UNCHANGED <<pfr_in, disk, sheet, run, pos, data, output, warned, lookups, err>>
    /\ UNCHANGED <<parseVars, prefixVars, agpVars, pureVars>>

NextMF == MfBegin \/ MfProject \/ MfLane \/ MfReturn

----------------------------------------------------------------------------
\* The column sets tried: the required ones, the same with two names in
\* capitals, and those with one required column, or two, missing
MfColumnSets ==
    {REQUIRED_MF_COLUMNS,
     (REQUIRED_MF_COLUMNS \ {"project_name", "barcode"}) \cup {"Project_Name", "BARCODE"},
     REQUIRED_MF_COLUMNS \ {"barcode", "primer"}}
    \cup {REQUIRED_MF_COLUMNS \ {c} : c \in REQUIRED_MF_COLUMNS}

MfSampleNames == {<<"7">>, <<"s", ".", " ", "1">>}

MfProjectNames == {AgpProject, <<"C", "_", "5", "5", "0">>, <<"N", "o", "S">>}

MfRow(name, project, columns) ==
    [cells |-> [c \in columns |->
                  CASE c = "sample_name" -> name
                    [] c \in {"project_name", "Project_Name"} -> project
                    [] OTHER -> c]]

\* The mapping files tried have one to MaxRows rows
MappingFiles ==
    UNION {[columns : {cs},
            rows : FramesOf({MfRow(n, p, cs) : n \in MfSampleNames, p \in MfProjectNames},
                            MaxRows) \ {<<>>}] : cs \in MfColumnSets}

\* <run id>_SMPL1_S<s>_L001_R<read>_<tail>.fastq.gz
MfFastqName(s, read, tail) ==
    GoodRunId \o <<"_", "S", "M", "P", "L", "1", "_", "S", s, "_", "L", "0", "0", "1">>
    \o <<"_", "R", read, "_">> \o tail \o FastqGz

\* <run>_SMPL1_S1_R1_1.fastq.gz
MfShortName(r) ==
    r \o <<"_", "S", "M", "P", "L", "1", "_", "S", "1", "_", "R", "1", "_", "1">>
    \o FastqGz

\* The amplicon directories tried: absent, a pair, a single file, a pair with
\* an empty file, three files, a pair of names of different lengths, and
\* pairs whose names differ in the first character or in the fourth, before
\* the _SMPL1 marker
MfTrees ==
    LET r1 == File(MfFastqName("1", "1", <<"0", "0", "1">>), "data")
        r2 == File(MfFastqName("1", "2", <<"0", "0", "1">>), "data")
    IN  {[amplicon |-> Absent],
         [amplicon |-> Dir({r1, r2})],
         [amplicon |-> Dir({r1})],
         [amplicon |-> Dir({r1, File(r2.name, "empty")})],
         [amplicon |-> Dir({r1, r2, File(MfFastqName("2", "1", <<"0", "0", "1">>), "data")})],
         [amplicon |-> Dir({r1, File(MfFastqName("1", "2", <<"1">>), "data")})],
         [amplicon |-> Dir({File(MfShortName(<<"A">>), "data"),
                            File(MfShortName(<<"B">>), "data")})],
         [amplicon |-> Dir({File(MfShortName(<<"R", "U", "N", "A">>), "data"),
                            File(MfShortName(<<"R", "U", "N", "B">>), "data")})]}

\* The directories tried with a mapping file: every one when it has the
\* required columns, one when it is refused for its columns
MfTreesFor(mf) ==
    IF REQUIRED_MF_COLUMNS \subseteq {LowerColumn(c) : c \in mf.columns}
    THEN MfTrees
    ELSE {[amplicon |-> Dir({File(MfFastqName("1", "1", <<"0", "0", "1">>), "data"),
                             File(MfFastqName("1", "2", <<"0", "0", "1">>), "data")})]}

\* The directory of the project of study 10317 and that of the other projects
InitMF ==
    /\ \E mf \in MappingFiles :
       \E agp_tree \in MfTreesFor(mf), other_tree \in MfTreesFor(mf) :
          /\ pfr_in = [run_path |-> <<"/", "r">>, mapping_file |-> mf]
          /\ sheet = mf
          /\ disk = [p \in MfProjectNames |->
                       IF p = AgpProject THEN agp_tree ELSE other_tree]
    /\ pc = "start"
    /\ run = NoCall /\ pos = NoCall /\ data = <<>> /\ output = {}
    /\ warned = <<>> /\ lookups = <<>> /\ err = NoCall
    /\ ParseIdle /\ PrefixIdle /\ AgpIdle /\ PureIdle

SpecMF == InitMF /\ [][NextMF]_vars

\* The last call of get_run_prefix_mf returned None
NoRunPrefixFound ==
    /\ lookups # <<>>
    /\ lookups[Len(lookups)].ret.status = "return"
    /\ lookups[Len(lookups)].ret.none

\* The required columns the mapping file handed in lacks, its column names
\* read in lower case
MissingMfColumns ==
    REQUIRED_MF_COLUMNS \ {LowerColumn(c) : c \in pfr_in.mapping_file.columns}

\* C11: in preparations_for_run_mapping_file, if the mapping file lacks any
\* one of the required mapping-file columns, sample_name included, the call
\* fails with the error 'Required columns are missing' naming the missing
\* columns, whichever required column is the missing one.
C11_MissingMfColumnsError ==
    MissingMfColumns # {} =>
        /\ pc \in {"start", "raised"}
        /\ pc = "raised" =>
              err = [status |-> "ValueError", msg |-> "Required columns are missing",
                     columns |-> MissingMfColumns]

\* The name ends in an underscore and a digit group
EndsInStudyId(project) ==
    \E u \in 1..(Len(project) - 1) :
        /\ project[u] = "_"
        /\ \A i \in (u + 1)..Len(project) : IsDigit(project[i])

\* The project_name values of the mapping file handed in, in the order of
\* the groups
MfProjectsInOrder ==
    LET names == {pfr_in.mapping_file.rows[i].cells[c] :
                     i \in DOMAIN pfr_in.mapping_file.rows,
                     c \in pfr_in.mapping_file.columns \cap {"project_name", "Project_Name"}}
        keys == SortKeys({<<n, <<"1">>>> : n \in names})
    IN  [i \in DOMAIN keys |-> keys[i][1]]

QiitaIdError ==
    [status |-> "ValueError",
     msg |-> "Values in project_name must be appended with a Qiita Study ID."]

\* C12: in preparations_for_run_mapping_file a project_name without a
\* Qiita-id suffix (_<digits>) is a hard error: the call raises as soon as the
\* group of that project is reached, returns no output mapping, whatever
\* tables were built for earlier projects, and looks up no file for that
\* project.
C12_NoStudyIdIsHardError ==
    pos # NoCall =>
        \A i \in DOMAIN MfProjectsInOrder :
            ~EndsInStudyId(MfProjectsInOrder[i]) =>
                /\ pos.group <= i
                /\ pc # "returned"
                /\ pos.group = i => pc \in {"project", "raised"}
                /\ (pos.group = i /\ pc = "raised") => err = QiitaIdError
                /\ \A k \in DOMAIN lookups : lookups[k].key[1] # MfProjectsInOrder[i]

\* The call raised at a project without a study id after the table of an
\* earlier project was built
C12_Witness ==
    /\ pc = "raised"
    /\ err = QiitaIdError
    /\ output # {}
    /\ ~EndsInStudyId(MfProjectsInOrder[pos.group])
    /\ \A k \in DOMAIN lookups : lookups[k].key[1] # MfProjectsInOrder[pos.group]

\* The names of the files get_run_prefix_mf finds for the project at hand
MfNamesFound ==
    {f.name : f \in Glob(disk[ProjectsOf(sheet)[pos.group]].amplicon, SearchPathMf)}

\* C17: whenever get_run_prefix_mf returns a prefix, the prefix is a common
\* leading substring of the names of both files, and the run id
\* preparations_for_run_mapping_file derives from it (the text before _SMPL1)
\* is a leading text of both names, wherever the two names first differ, a
\* difference within the first two characters or before the _SMPL1 marker
\* included.
C17_PrefixAndRunIdLeadBothNames ==
    pc = "lane" =>
        \A n \in MfNamesFound :
            /\ IsPrefixOf(run.run_prefix, n)
            /\ IsPrefixOf(run.run_id, n)

\* C9: in preparations_for_run_mapping_file, if no run-prefix can be found for
\* a project (get_run_prefix_mf returns None), the call fails with the error
\* 'A run-prefix could not be determined.' and with no other kind of error.
C9_MissingRunPrefixError ==
    NoRunPrefixFound =>
        /\ pc = "raised"
        /\ err = [status |-> "ValueError",
                  msg |-> "A run-prefix could not be determined."]

----------------------------------------------------------------------------
\* Bounds of the run identifiers tried
MaxTail == 3
MaxDigitRun == 9

YearPairs == {<<"0", "0">>, <<"2", "0">>, <<"6", "8">>, <<"6", "9">>, <<"9", "9">>}
MonthPairs == {<<"0", "1">>, <<"0", "2">>, <<"1", "2">>, <<"1", "3">>}
DayPairs == {<<"0", "1">>, <<"2", "9">>, <<"3", "1">>, <<"3", "2">>}
LongYears == {<<"2", "0", "2", "2">>, <<"0", "0", "0", "0">>}

RunIdHeads ==
    {[i \in 1..n |-> "1"] : n \in 0..MaxDigitRun}
    \cup {y \o m \o d : y \in YearPairs \cup LongYears, m \in MonthPairs, d \in DayPairs}

RunIdTails == StringsUpTo({"_", "-", "M", "7"}, MaxTail)

RunIds == {h \o t : h \in RunIdHeads, t \in RunIdTails}

InitParse ==
    /\ run_id_in \in RunIds
    /\ parse_out = NoCall
    /\ PrefixIdle
    /\ AgpIdle
    /\ PrepIdle
    /\ PureIdle

ParseRunId ==
    /\ parse_out = NoCall
    /\ parse_out' \in parse_illumina_run_id(run_id_in)
    /\ UNCHANGED <<run_id_in, prefixVars, agpVars, prepVars, pureVars>>

NextParse == ParseRunId

SpecParse == InitParse /\ [][NextParse]_vars

\* Six digits, an underscore, then anything: the 6-digit run-id format
HasSixDigitForm(s) ==
    Len(s) >= 7 /\ (\A i \in 1..6 : s[i] \in Digits) /\ s[7] = "_"

\* Eight digits, an underscore, then anything: the 8-digit run-id format
HasEightDigitForm(s) ==
    Len(s) >= 9 /\ (\A i \in 1..8 : s[i] \in Digits) /\ s[9] = "_"

\* C5: a run id of neither the 6-digit nor the 8-digit form fails with the
\* 'Unrecognized run identifier format' ValueError and yields no date or
\* instrument code; and the two patterns never both match a run id.
C5_UnrecognizedRunIdFails ==
    /\ (/\ parse_out # NoCall
        /\ ~HasSixDigitForm(run_id_in)
        /\ ~HasEightDigitForm(run_id_in))
       => parse_out = [status |-> "ValueError", msg |-> FormatErrorMsg]
    /\ ~(Matches6(run_id_in) # NoMatch /\ Matches8(run_id_in) # NoMatch)

\* C5 witness: seven digits and an underscore were given and rejected
C5_Witness ==
    /\ RunLen(run_id_in, 0, Digits) = 7
    /\ Len(run_id_in) > 7 /\ run_id_in[8] = "_"
    /\ parse_out = [status |-> "ValueError", msg |-> FormatErrorMsg]

\* YYMMDD names a day of the year 20YY
IsDateOf20YY(s) ==
    LET y == 2000 + Num(SubSeq(s, 1, 2))
        m == Num(SubSeq(s, 3, 4))
        d == Num(SubSeq(s, 5, 6))
    IN  m \in 1..12 /\ d \in 1..DaysInMonth(y, m)

\* C6: a run id YYMMDD_<rest> whose YYMMDD is a day of 20YY parses to the date
\* 20YY-MM-DD and to the run of word characters that follows the underscore.
C6_SixDigitDateIs20YY ==
    (/\ parse_out # NoCall
     /\ HasSixDigitForm(run_id_in)
     /\ IsDateOf20YY(run_id_in))
    => /\ parse_out.status = "ok"
       /\ parse_out.run_date =
              <<"2", "0">> \o SubSeq(run_id_in, 1, 2) \o <<"-">>
              \o SubSeq(run_id_in, 3, 4) \o <<"-">> \o SubSeq(run_id_in, 5, 6)
       /\ parse_out.instrument_code =
              SubSeq(run_id_in, 8, 7 + RunLen(run_id_in, 7, WordChars))

(***************************************************************************)
(* qiita_scrub_name                                                        *)
(***************************************************************************)
\* re.sub with a pattern without the +: every character outside the class
\* becomes a '.'
qiita_scrub_name_PerCharacter(name) ==
    [i \in DOMAIN name |->
        IF name[i] \in Digits \cup Upper \cup Lower \cup {"-", "."}
        THEN name[i] ELSE "."]

\* re.sub(r'[^0-9a-zA-Z\-\.]+', '.', name)
qiita_scrub_name(name) ==
    ReSubRuns(name, Digits \cup Upper \cup Lower \cup {"-", "."}, ".")

\* Bounds of the names tried and of the calls made in turn
MaxName == 3
MaxScrubCalls == 2

ScrubNames ==
    StringsUpTo({"a", "7", "-", ".", " ", "!", "_"}, MaxName)
    \cup {<<"s", "a", "m", "p", "l", "e", " ", "1", "!">>}

InitScrub ==
    /\ name_in \in ScrubNames
    /\ scrub_hist = <<>>
    /\ code_in = NoCall /\ model_out = NoCall
    /\ ParseIdle /\ PrefixIdle /\ AgpIdle /\ PrepIdle

\* qiita_scrub_name(name), then qiita_scrub_name of what it returned
QiitaScrubName ==
    /\ Len(scrub_hist) < MaxScrubCalls
    /\ scrub_hist' = Append(scrub_hist,
                            qiita_scrub_name(IF scrub_hist = <<>> THEN name_in
                                             ELSE scrub_hist[Len(scrub_hist)]))
    /\ UNCHANGED <<name_in, code_in, model_out>>
    /\ UNCHANGED <<parseVars, prefixVars, agpVars, prepVars>>

NextScrub == QiitaScrubName

SpecScrub == InitScrub /\ [][NextScrub]_vars

QiitaAllowed == Digits \cup Upper \cup Lower \cup {"-", "."}

\* The positions of name that leave a character in the result: those of an
\* allowed character and that of the first character of each run of others
Emitting(name) ==
    {i \in DOMAIN name :
        \/ name[i] \in QiitaAllowed
        \/ i = 1
        \/ name[i - 1] \in QiitaAllowed}

\* C13: qiita_scrub_name maps any string to one of characters of
\* [0-9a-zA-Z], '-' and '.' only, each maximal run of other characters being
\* replaced by a single '.' and the allowed characters left in place and in
\* order ('sample 1!' becomes 'sample.1.'); applied to its own result it
\* changes nothing.
C13_QiitaScrubName ==
    /\ Len(scrub_hist) >= 1 =>
          LET out == scrub_hist[1]
              at == Emitting(name_in)
          IN  /\ \A k \in DOMAIN out : out[k] \in QiitaAllowed
              /\ Len(out) = Cardinality(at)
              /\ \A i \in at :
                    out[Cardinality({j \in at : j <= i})] =
                        IF name_in[i] \in QiitaAllowed THEN name_in[i] ELSE "."
              /\ name_in = <<"s", "a", "m", "p", "l", "e", " ", "1", "!">>
                    => out = <<"s", "a", "m", "p", "l", "e", ".", "1", ".">>
    /\ Len(scrub_hist) >= 2 => scrub_hist[2] = scrub_hist[1]

\* A name with a run of two characters that are not allowed was scrubbed twice
C13_Witness ==
    /\ Len(scrub_hist) = 2
    /\ Len(name_in) = 3
    /\ name_in[1] = "a" /\ name_in[2] = " " /\ name_in[3] = "!"
    /\ scrub_hist[1] = <<"a", ".">>

(***************************************************************************)
(* get_model_and_center called on its own                                  *)
(***************************************************************************)
\* Bound of the model codes tried
MaxCode == 3

\* The instrument codes tried: the codes of the table and short codes, alone
\* and followed by the rest of a run identifier
InstrumentCodes ==
    {c \o t :
        c \in {INSTRUMENT_LOOKUP[i].code : i \in DOMAIN INSTRUMENT_LOOKUP}
               \cup StringsUpTo({"M", "N", "A", "X", "m", "0", "-"}, MaxCode),
        t \in {<<>>, <<"_", "1", "_", "A">>}}

InitModel ==
    /\ code_in \in InstrumentCodes
    /\ model_out = NoCall
    /\ name_in = NoCall /\ scrub_hist = <<>>
    /\ ParseIdle /\ PrefixIdle /\ AgpIdle /\ PrepIdle

GetModelAndCenter ==
    /\ model_out = NoCall
    /\ model_out' = get_model_and_center(code_in)
    /\ UNCHANGED <<code_in, name_in, scrub_hist>>
    /\ UNCHANGED <<parseVars, prefixVars, agpVars, prepVars>>

NextModel == GetModelAndCenter

SpecModel == InitModel /\ [][NextModel]_vars

\* The part of the instrument code before its first underscore
ModelCode ==
    LET under == {i \in DOMAIN code_in : code_in[i] = "_"}
    IN  IF under = {} THEN code_in
        ELSE SubSeq(code_in, 1, (CHOOSE i \in under : \A j \in under : i <= j) - 1)

\* Its one or two leading letters
LeadingLetters ==
    LET Letter(i) == i <= Len(ModelCode) /\ ModelCode[i] \in Upper \cup Lower
    IN  IF Letter(1) /\ Letter(2) THEN SubSeq(ModelCode, 1, 2)
        ELSE IF Letter(1) THEN SubSeq(ModelCode, 1, 1)
        ELSE <<>>

\* C16: for an instrument code whose model code (the part before the first
\* underscore) is not a key of the instrument table, get_model_and_center
\* takes the leading one or two letters; if a record of the table has that
\* machine prefix it returns the model name of the first such record and the
\* run center 'UCSDMI'; if none has, it fails with an error and returns no
\* pair; a model code with no leading letter fails with the error 'Cannot
\* find a machine code'.  For a model code that is a key it returns the model
\* name and the run center of that record.
C16_ModelAndCenter ==
    model_out # NoCall =>
        LET keyed == {i \in DOMAIN INSTRUMENT_LOOKUP :
                         INSTRUMENT_LOOKUP[i].code = ModelCode}
            prefixed == {i \in DOMAIN INSTRUMENT_LOOKUP :
                            INSTRUMENT_LOOKUP[i].machine_prefix = LeadingLetters}
        IN  IF keyed # {}
            THEN \E i \in keyed :
                    model_out = [status |-> "ok",
                                 instrument_model |-> INSTRUMENT_LOOKUP[i].Vocab,
                                 run_center |-> INSTRUMENT_LOOKUP[i].run_center]
            ELSE IF LeadingLetters = <<>>
            THEN model_out = [status |-> "ValueError",
                              msg |-> "Cannot find a machine code"]
            ELSE IF prefixed # {}
            THEN \E i \in prefixed :
                    /\ \A j \in prefixed : i <= j
                    /\ model_out = [status |-> "ok",
                                    instrument_model |-> INSTRUMENT_LOOKUP[i].Vocab,
                                    run_center |-> "UCSDMI"]
            ELSE model_out.status \notin {"ok", "idle"}

\* A code that is no key and begins with MN gave the MiniSeq and UCSDMI
C16_Witness ==
    /\ model_out # NoCall
    /\ code_in = <<"M", "N", "0", "_", "1", "_", "A">>
    /\ model_out = [status |-> "ok", instrument_model |-> "Illumina MiniSeq",
                    run_center |-> "UCSDMI"]

====
